---- MODULE Spec2Model ----
(***************************************************************************)
(* Session / credential lifecycle (OAuthHandler, the login, callback and   *)
(* logout routes, the requireAuth / optionalAuth middleware) and the cache *)
(* layer of YouTubeAPIClient, over one shared Deno KV store.               *)
(*                                                                         *)
(* Every request is a process.  One action is one suspension point of the  *)
(* handler: the awaited store operation or HTTP call completes, and the    *)
(* synchronous code that follows it runs up to the next await.  Time is    *)
(* counted in minutes.                                                     *)
(***************************************************************************)
EXTENDS Integers, Sequences, FiniteSets, TLC

\* ------------------------------------------------------------------ bounds
MaxTime == 1
MaxCsrfTime == 10
MaxStates == 1
MaxSessions == 1
MaxSeed == 1
MaxTokens == 2
MaxCacheTime == 40
MaxRequests == 2
MaxHalfDays == 2
MaxTracked == 3
MaxIds == 120
MaxChannels == 6
MaxRunning == 2
MaxTokenChars == 8

\* ------------------------------------------------------- program constants
BufferTime == 5
StateTTL == 10
SubscriptionsCacheTTL == 30
VideosCacheTTL == 10
QuotaThreshold == 9000

\* Request slots: two for the interleavings, one for the sequential runs.
Procs == {1, 2}
One == {1}
Users == {1}
\* Token lifetimes the provider reports, in minutes: one below the refresh
\* buffer, one that just covers it.
Lifetimes == {3, 5}
Cleared == 0 - 1
BogusSid == MaxSessions + MaxSeed + 2
BogusState == MaxStates + 1
NoExpiry == 0 - 1

Null == [null |-> TRUE]

Min(a, b) == IF a < b THEN a ELSE b

\* ------------------------------------------------------------ the KV store
KvGet(store, key, absent) == IF key \in DOMAIN store THEN store[key] ELSE absent

KvSet(store, key, value) ==
  [k \in DOMAIN store \cup {key} |-> IF k = key THEN value ELSE store[k]]

KvDelete(store, key) == [k \in DOMAIN store \ {key} |-> store[k]]

\* redemptions, deleted and tracked record history for the properties: how
\* many callbacks marked each state used, which session ids were deleted, and
\* how many usage recordings each day and endpoint had.
VARIABLES now, oauthStates, sessions, userSessions, cache, usage, tracked,
          nextState, nextSid, redemptions, deleted, proc

vars == <<now, oauthStates, sessions, userSessions, cache, usage, tracked,
          nextState, nextSid, redemptions, deleted, proc>>

storeVars == <<oauthStates, sessions, userSessions>>

gatewayVars == <<cache, usage, tracked>>

authVars == <<storeVars, nextState, nextSid, redemptions, deleted>>

\* A response: its status, its body or Location, the session cookie it sets
\* and the state parameter of an authorization URL.
Response(status, body) ==
  [status |-> status, body |-> body, cookie |-> 0, state |-> 0]

NoResponse == Response(0, "")

\* What the request's call of ensureValidToken did, kept for the properties:
\* how it ended, when it returned, the session it was given (id, user, expiry)
\* and the lifetime, the refresh token (0: none) and the time of the refresh
\* response.
NoEvt ==
  [outcome |-> "none", at |-> 0, given |-> 0, life |-> 0, refreshedAt |-> 0,
   id |-> 0, user |-> 0, refresh |-> 0]

Outcome(evt) == [NoEvt EXCEPT !.outcome = evt.outcome]

Never == 0 - 1

\* The arguments of a gateway call.
NoArgs ==
  [token |-> <<>>, channel |-> 0, payload |-> 0, ttl |-> 0, ids |-> <<>>]

IdleProc ==
  [pc |-> "idle", stack |-> <<>>, kind |-> "none",
   cookie |-> 0, qstate |-> 0,
   sid |-> 0, sess |-> Null, session |-> Null, updated |-> Null,
   valid |-> Null, duid |-> 0, stateData |-> Null, tokens |-> Null,
   err |-> "none", resp |-> NoResponse,
   reqSession |-> Null, reqUser |-> 0, handlerCalls |-> 0,
   refreshCalls |-> 0, evt |-> NoEvt,
   ckey |-> <<>>, cacheEntry |-> Null, data |-> 0, today |-> 0,
   updatedUsage |-> Null, httpCalls |-> 0, result |-> 0,
   args |-> NoArgs, endpoint |-> "", error |-> Null, waitedMs |-> 0,
   cachedUntil |-> Never, stats |-> Null, prev |-> Null,
   i |-> 0, batch |-> <<>>, items |-> <<>>,
   cacheWrites |-> 0, usageWrites |-> 0, answer |-> Null,
   results |-> <<>>]

Init ==
  /\ now = 0
  /\ oauthStates = <<>>
  /\ sessions = <<>>
  /\ userSessions = <<>>
  /\ cache = <<>>
  /\ usage = <<>>
  /\ tracked = <<>>
  /\ nextState = 1
  /\ nextSid = 1
  /\ redemptions = <<>>
  /\ deleted = {}
  /\ proc = [p \in Procs |-> IdleProc]

\* The request ends: its locals die, what it did stays readable.
Finish(l, response) ==
  [IdleProc EXCEPT !.pc = "done", !.kind = l.kind,
                   !.cookie = l.cookie, !.qstate = l.qstate,
                   !.err = l.err, !.resp = response,
                   !.reqSession = l.reqSession, !.reqUser = l.reqUser,
                   !.handlerCalls = l.handlerCalls,
                   !.refreshCalls = l.refreshCalls,
                   !.evt = Outcome(l.evt),
                   !.ckey = l.ckey, !.httpCalls = l.httpCalls,
                   !.args = l.args, !.error = l.error,
                   !.waitedMs = l.waitedMs,
                   !.cachedUntil = l.cachedUntil, !.prev = l.prev,
                   !.items = l.items,
                   !.cacheWrites = l.cacheWrites,
                   !.usageWrites = l.usageWrites,
                   !.answer = l.answer,
                   !.results = l.results]

\* A slot takes a new request when it is free or its last request has ended.
Free(p) == proc[p].pc \in {"idle", "done"}

SetProc(p, l) == proc' = [proc EXCEPT ![p] = l]

NewRequest(kind, cookie, qstate) ==
  [IdleProc EXCEPT !.kind = kind, !.cookie = cookie, !.qstate = qstate]

Failed(l, err, response) == Finish([l EXCEPT !.err = err], response)

\* ------------------------------------------------------------------- clock
Tick(limit, step) ==
  /\ now < limit
  /\ now' = now + step
  /\ UNCHANGED <<gatewayVars, storeVars, nextState, nextSid, redemptions, deleted, proc>>

\* Deno KV removes a key set with expireIn at the earliest when the time has
\* elapsed; the key may stay visible for a while after that.
KvExpire ==
  /\ \E s \in DOMAIN oauthStates :
       /\ oauthStates[s].expireAt # NoExpiry
       /\ oauthStates[s].expireAt <= now
       /\ oauthStates' = KvDelete(oauthStates, s)
  /\ UNCHANGED <<gatewayVars, now, sessions, userSessions, nextState, nextSid,
                 redemptions, deleted, proc>>

\* ------------------------------------------------------------ login route
\* The redirect to the authorization URL, which carries the state.
GenerateAuthUrl(state) ==
  [Response(302, "https://accounts.google.com/o/oauth2/v2/auth")
     EXCEPT !.state = state]

\* The request up to its first store operation: the method check, openKv,
\* the configuration check and generateState.
LoginStart(p) ==
  /\ Free(p)
  /\ LET l == NewRequest("login", 0, 0) IN
     \/ /\ SetProc(p, Finish(l, Response(405, "Method not allowed")))
        /\ UNCHANGED nextState
     \/ /\ SetProc(p, Failed(l, "store", Response(500, "Internal server error")))
        /\ UNCHANGED nextState
     \/ /\ SetProc(p, Finish(l, Response(500, "OAuth configuration missing")))
        /\ UNCHANGED nextState
     \/ /\ nextState <= MaxStates
        /\ SetProc(p, [l EXCEPT !.pc = "login_set", !.qstate = nextState,
                         !.stateData = [createdAt |-> now, used |-> FALSE]])
        /\ nextState' = nextState + 1
  /\ UNCHANGED <<gatewayVars, now, storeVars, nextSid, redemptions, deleted>>

LoginSet(p) ==
  /\ proc[p].pc = "login_set"
  /\ LET l == proc[p] IN
     \/ /\ oauthStates' = KvSet(oauthStates, l.qstate,
                                [createdAt |-> l.stateData.createdAt,
                                 used |-> l.stateData.used,
                                 expireAt |-> now + StateTTL])
        /\ SetProc(p, Finish(l, GenerateAuthUrl(l.qstate)))
     \/ /\ SetProc(p, Failed(l, "store", Response(500, "Internal server error")))
        /\ UNCHANGED oauthStates
  /\ UNCHANGED <<gatewayVars, now, sessions, userSessions, nextState, nextSid, redemptions, deleted>>

\* --------------------------------------------------------- callback route
IssuedStates == 1..(nextState - 1)

\* The request up to its first store operation: the method check, the error,
\* code and state parameters, openKv.
CallbackStart(p) ==
  /\ Free(p)
  /\ \/ SetProc(p, Finish(NewRequest("callback", 0, 0),
                          Response(405, "Method not allowed")))
     \/ \E qstate \in IssuedStates \cup {0, BogusState} :
          LET l == NewRequest("callback", 0, qstate) IN
          \/ SetProc(p, Finish(l, Response(302, "/?error=oauth_error")))
          \/ SetProc(p, Finish(l, Response(400, "Missing authorization code or state")))
          \/ /\ qstate # 0
             /\ SetProc(p, Failed(l, "store", Response(302, "/?error=auth_failed")))
          \/ /\ qstate # 0
             /\ SetProc(p, [l EXCEPT !.pc = "cb_get"])
  /\ UNCHANGED <<gatewayVars, now, storeVars, nextState, nextSid, redemptions, deleted>>

\* The check that lets a used state through.
StateCheckPasses_AcceptsUsed(stateData) == stateData # Null

StateCheckPasses(stateData) == stateData # Null /\ ~stateData.used

CallbackGetState(p) ==
  /\ proc[p].pc = "cb_get"
  /\ LET l == proc[p]
         stateData == KvGet(oauthStates, l.qstate, Null) IN
     \/ SetProc(p, Failed(l, "store", Response(302, "/?error=auth_failed")))
     \/ SetProc(p, IF StateCheckPasses(stateData)
                     THEN [l EXCEPT !.pc = "cb_set", !.stateData = stateData]
                     ELSE Finish(l, Response(400, "Invalid or expired state")))
  /\ UNCHANGED <<gatewayVars, now, storeVars, nextState, nextSid, redemptions, deleted>>

\* The write that forgets the flag.
MarkUsed_LeavesUnused(stateData) ==
  [createdAt |-> stateData.createdAt, used |-> stateData.used,
   expireAt |-> NoExpiry]

MarkUsed(stateData) ==
  [createdAt |-> stateData.createdAt, used |-> TRUE, expireAt |-> NoExpiry]

CallbackSetUsed(p) ==
  /\ proc[p].pc = "cb_set"
  /\ LET l == proc[p] IN
     \/ /\ SetProc(p, Failed(l, "store", Response(302, "/?error=auth_failed")))
        /\ UNCHANGED <<oauthStates, redemptions>>
     \/ /\ oauthStates' = KvSet(oauthStates, l.qstate, MarkUsed(l.stateData))
        /\ redemptions' = KvSet(redemptions, l.qstate,
                                KvGet(redemptions, l.qstate, 0) + 1)
        /\ \/ SetProc(p, Finish(l, Response(500, "OAuth configuration missing")))
           \/ SetProc(p, [l EXCEPT !.pc = "cb_exchange", !.stateData = Null])
  /\ UNCHANGED <<gatewayVars, now, sessions, userSessions, nextState, nextSid, deleted>>

\* Tokens are named by their generation: the exchange issues generation 1 and
\* every refresh the next one.
ExchangeCodeForTokens(life) ==
  [access_token |-> 1, refresh_token |-> 1, expires_in |-> life]

CallbackExchange(p) ==
  /\ proc[p].pc = "cb_exchange"
  /\ LET l == proc[p] IN
     \/ \E life \in Lifetimes :
          SetProc(p, [l EXCEPT !.pc = "cb_userinfo",
                        !.tokens = ExchangeCodeForTokens(life)])
     \/ SetProc(p, Failed(l, "exchange", Response(302, "/?error=auth_failed")))
  /\ UNCHANGED <<gatewayVars, now, storeVars, nextState, nextSid, redemptions, deleted>>

\* The session that takes the user's id for its own.
NewSession_SameId(sessionId, userId, tokens) ==
  [id |-> userId,
   userId |-> userId,
   accessToken |-> tokens.access_token,
   refreshToken |-> tokens.refresh_token,
   tokenExpiresAt |-> now + tokens.expires_in,
   createdAt |-> now, lastAccessed |-> now]

\* storeTokens up to its first await: the session object is built here.
NewSession(sessionId, userId, tokens) ==
  [id |-> sessionId, userId |-> userId,
   accessToken |-> tokens.access_token,
   refreshToken |-> tokens.refresh_token,
   tokenExpiresAt |-> now + tokens.expires_in,
   createdAt |-> now, lastAccessed |-> now]

CallbackUserinfo(p) ==
  /\ proc[p].pc = "cb_userinfo"
  /\ LET l == proc[p] IN
     \/ /\ nextSid <= MaxSessions + MaxSeed
        /\ \E userId \in Users :
             SetProc(p, [l EXCEPT !.pc = "st_set1", !.tokens = Null,
                           !.sess = NewSession(nextSid, userId, l.tokens)])
        /\ nextSid' = nextSid + 1
     \/ /\ SetProc(p, Failed(l, "userinfo", Response(302, "/?error=auth_failed")))
        /\ UNCHANGED nextSid
  /\ UNCHANGED <<gatewayVars, now, storeVars, nextState, redemptions, deleted>>

StoreTokensSetSession(p) ==
  /\ proc[p].pc = "st_set1"
  /\ LET l == proc[p] IN
     \/ /\ sessions' = KvSet(sessions, l.sess.id, l.sess)
        /\ SetProc(p, [l EXCEPT !.pc = "st_set2"])
     \/ /\ SetProc(p, Failed(l, "store", Response(302, "/?error=auth_failed")))
        /\ UNCHANGED sessions
  /\ UNCHANGED <<gatewayVars, now, oauthStates, userSessions, nextState, nextSid, redemptions, deleted>>

SetSessionCookie(response, sessionId) == [response EXCEPT !.cookie = sessionId]

StoreTokensSetPointer(p) ==
  /\ proc[p].pc = "st_set2"
  /\ LET l == proc[p] IN
     \/ /\ userSessions' = KvSet(userSessions, l.sess.userId, l.sess.id)
        /\ SetProc(p, Finish(l, SetSessionCookie(Response(302, "/?auth=success"),
                                                 l.sess.id)))
     \/ /\ SetProc(p, Failed(l, "store", Response(302, "/?error=auth_failed")))
        /\ UNCHANGED userSessions
  /\ UNCHANGED <<gatewayVars, now, oauthStates, sessions, nextState, nextSid, redemptions, deleted>>

CallbackStep(p) ==
  \/ CallbackGetState(p)
  \/ CallbackSetUsed(p)
  \/ CallbackExchange(p)
  \/ CallbackUserinfo(p)
  \/ StoreTokensSetSession(p)
  \/ StoreTokensSetPointer(p)

\* ----------------------------------------------------------- OAuthHandler
\* A handler that awaits one of the methods below pushes the place it waits
\* at; Return resumes that place with the method's result, Raise unwinds to
\* the nearest catch.
RECURSIVE Return(_, _), Raise(_)

\* The expiry test without the buffer.
IsTokenExpired_NoBuffer(session) == now > session.tokenExpiresAt

IsTokenExpired(session) == now > session.tokenExpiresAt - BufferTime

CallGetStoredTokens(l, sessionId, frame) ==
  [l EXCEPT !.pc = "gst_get", !.sid = sessionId, !.stack = <<frame>> \o @]

\* deleteSession starts by awaiting getStoredTokens.
CallDeleteSession(l, sessionId, frame) ==
  CallGetStoredTokens([l EXCEPT !.stack = <<frame>> \o @], sessionId,
                      "deleteSession:164")

GetStoredTokensGet(p) ==
  /\ proc[p].pc = "gst_get"
  /\ LET l == proc[p]
         value == KvGet(sessions, l.sid, Null) IN
     \/ SetProc(p, Raise([l EXCEPT !.err = "store"]))
     \/ SetProc(p, IF value = Null
                     THEN Return(l, Null)
                     ELSE [l EXCEPT !.pc = "gst_set",
                                    !.sess = [value EXCEPT !.lastAccessed = now]])
  /\ UNCHANGED <<gatewayVars, now, storeVars, nextState, nextSid, redemptions, deleted>>

GetStoredTokensSet(p) ==
  /\ proc[p].pc = "gst_set"
  /\ LET l == proc[p] IN
     \/ /\ sessions' = KvSet(sessions, l.sid, l.sess)
        /\ SetProc(p, Return([l EXCEPT !.sess = Null], l.sess))
     \/ /\ SetProc(p, Raise([l EXCEPT !.err = "store", !.sess = Null]))
        /\ UNCHANGED sessions
  /\ UNCHANGED <<gatewayVars, now, oauthStates, userSessions, nextState, nextSid, redemptions, deleted>>

\* deleteSession after getStoredTokens returned.
DeleteSessionFound(l, session) ==
  IF session # Null
    THEN [l EXCEPT !.pc = "ds_del1", !.duid = session.userId]
    ELSE Return(l, Null)

DeleteSessionPrimary(p) ==
  /\ proc[p].pc = "ds_del1"
  /\ LET l == proc[p] IN
     \/ /\ sessions' = KvDelete(sessions, l.sid)
        /\ deleted' = deleted \cup {l.sid}
        /\ SetProc(p, [l EXCEPT !.pc = "ds_del2"])
     \/ /\ SetProc(p, Raise([l EXCEPT !.err = "store", !.duid = 0]))
        /\ UNCHANGED <<sessions, deleted>>
  /\ UNCHANGED <<gatewayVars, now, oauthStates, userSessions, nextState, nextSid, redemptions>>

DeleteSessionPointer(p) ==
  /\ proc[p].pc = "ds_del2"
  /\ LET l == proc[p] IN
     \/ /\ userSessions' = KvDelete(userSessions, l.duid)
        /\ SetProc(p, Return([l EXCEPT !.duid = 0], Null))
     \/ /\ SetProc(p, Raise([l EXCEPT !.err = "store", !.duid = 0]))
        /\ UNCHANGED userSessions
  /\ UNCHANGED <<gatewayVars, now, oauthStates, sessions, nextState, nextSid, redemptions, deleted>>

\* getUserSession: the user's pointer, then the session it names.
GetUserSession(userId) ==
  IF userId \in DOMAIN userSessions
    THEN KvGet(sessions, userSessions[userId], Null)
    ELSE Null

\* The refresh that hands on the provider's answer as it came.
RefreshAccessToken_AsSent(refreshToken, tokenData) == tokenData

\* The provider's answer to a refresh; refresh_token 0 stands for a response
\* without one.
RefreshAccessToken(refreshToken, tokenData) ==
  [tokenData EXCEPT !.refresh_token = IF @ = 0 THEN refreshToken ELSE @]

\* ensureValidToken up to its first await.
CallEnsureValidToken(l, session, frame) ==
  LET m == [l EXCEPT !.stack = <<frame>> \o @,
                     !.evt = [NoEvt EXCEPT !.id = session.id,
                                           !.user = session.userId,
                                           !.given = session.tokenExpiresAt]]
  IN IF IsTokenExpired(session)
       THEN [m EXCEPT !.pc = "evt_refresh", !.session = session,
                      !.refreshCalls = @ + 1]
       ELSE Return([m EXCEPT !.evt.outcome = "kept", !.evt.at = now], session)

\* The update that starts the session anew.
UpdatedSession_Recreated(session, newTokens) ==
  [session EXCEPT !.accessToken = newTokens.access_token,
                  !.refreshToken = newTokens.refresh_token,
                  !.tokenExpiresAt = now + newTokens.expires_in,
                  !.createdAt = now,
                  !.lastAccessed = now]

\* The update that keeps the old expiry.
UpdatedSession_KeepsExpiry(session, newTokens) ==
  [session EXCEPT !.accessToken = newTokens.access_token,
                  !.refreshToken = newTokens.refresh_token,
                  !.lastAccessed = now]

UpdatedSession(session, newTokens) ==
  [session EXCEPT !.accessToken = newTokens.access_token,
                  !.refreshToken = newTokens.refresh_token,
                  !.tokenExpiresAt = now + newTokens.expires_in,
                  !.lastAccessed = now]

\* The catch block of ensureValidToken.
EnsureValidTokenCatch(l) ==
  CallDeleteSession([l EXCEPT !.session = Null, !.updated = Null],
                    l.session.id, "ensureValidToken:196")

EnsureValidTokenRefresh(p) ==
  /\ proc[p].pc = "evt_refresh"
  /\ LET l == proc[p] IN
     \/ /\ l.session.accessToken < MaxTokens
        /\ \E life \in Lifetimes, rotated \in BOOLEAN :
             LET gen == l.session.accessToken + 1
                 newTokens ==
                   RefreshAccessToken(l.session.refreshToken,
                     [access_token |-> gen,
                      refresh_token |-> IF rotated THEN gen ELSE 0,
                      expires_in |-> life])
             IN SetProc(p, [l EXCEPT !.pc = "evt_set",
                              !.updated = UpdatedSession(l.session, newTokens),
                              !.evt.life = life, !.evt.refreshedAt = now,
                              !.evt.refresh = IF rotated THEN gen ELSE 0])
     \/ SetProc(p, EnsureValidTokenCatch([l EXCEPT !.err = "refresh"]))
  /\ UNCHANGED <<gatewayVars, now, storeVars, nextState, nextSid, redemptions, deleted>>

EnsureValidTokenSet(p) ==
  /\ proc[p].pc = "evt_set"
  /\ LET l == proc[p] IN
     \/ /\ sessions' = KvSet(sessions, l.session.id, l.updated)
        /\ SetProc(p, Return([l EXCEPT !.session = Null, !.updated = Null,
                                !.evt.outcome = "refreshed", !.evt.at = now],
                             l.updated))
     \/ /\ SetProc(p, EnsureValidTokenCatch([l EXCEPT !.err = "store"]))
        /\ UNCHANGED sessions
  /\ UNCHANGED <<gatewayVars, now, oauthStates, userSessions, nextState, nextSid, redemptions, deleted>>

\* ---------------------------------------------------------- auth middleware
IssuedSids == 1..(nextSid - 1)

HandlerResponse == Response(200, "handler")

RequireAuthStart(p) ==
  /\ Free(p)
  /\ \/ SetProc(p, Failed(NewRequest("requireAuth", 0, 0), "store",
                          Response(500, "Internal server error")))
     \/ SetProc(p, Finish(NewRequest("requireAuth", 0, 0),
                          Response(401, "Authentication required")))
     \/ \E cookie \in IssuedSids \cup {BogusSid} :
          SetProc(p, CallGetStoredTokens(NewRequest("requireAuth", cookie, 0),
                                         cookie, "requireAuth:57"))
  /\ UNCHANGED <<gatewayVars, now, storeVars, nextState, nextSid, redemptions, deleted>>

\* The middleware that lets a request without a session through.
RequireAuthSession_Admits(l, session) ==
  IF session = Null
    THEN [l EXCEPT !.pc = "ra_handler", !.handlerCalls = @ + 1]
    ELSE CallEnsureValidToken(l, session, "requireAuth:70")

RequireAuthSession(l, session) ==
  IF session = Null
    THEN Finish(l, Response(401, "Invalid session"))
    ELSE CallEnsureValidToken(l, session, "requireAuth:70")

RequireAuthValid(l, validSession) ==
  [l EXCEPT !.pc = "ra_userinfo", !.valid = validSession]

RequireAuthUserinfo(p) ==
  /\ proc[p].pc = "ra_userinfo"
  /\ LET l == proc[p] IN
     \/ SetProc(p, [l EXCEPT !.pc = "ra_handler", !.valid = Null,
                      !.reqSession = l.valid, !.reqUser = l.valid.userId,
                      !.evt = Outcome(l.evt), !.handlerCalls = @ + 1])
     \/ SetProc(p, Failed(l, "userinfo", Response(401, "Token validation failed")))
  /\ UNCHANGED <<gatewayVars, now, storeVars, nextState, nextSid, redemptions, deleted>>

RequireAuthHandler(p) ==
  /\ proc[p].pc = "ra_handler"
  /\ LET l == proc[p] IN
     \/ SetProc(p, Finish(l, HandlerResponse))
     \/ SetProc(p, Failed(l, "handler", Response(401, "Token validation failed")))
  /\ UNCHANGED <<gatewayVars, now, storeVars, nextState, nextSid, redemptions, deleted>>

\* optionalAuth line 184: the handler is called with whatever was attached.
OptionalAuthCallHandler(l) ==
  [l EXCEPT !.pc = "oa_handler", !.valid = Null, !.evt = Outcome(l.evt),
            !.handlerCalls = @ + 1]

OptionalAuthStart(p) ==
  /\ Free(p)
  /\ \/ SetProc(p, [NewRequest("optionalAuth", 0, 0) EXCEPT
                      !.pc = "oa_handler2", !.err = "store", !.handlerCalls = 1])
     \/ SetProc(p, OptionalAuthCallHandler(NewRequest("optionalAuth", 0, 0)))
     \/ \E cookie \in IssuedSids \cup {BogusSid} :
          SetProc(p, CallGetStoredTokens(NewRequest("optionalAuth", cookie, 0),
                                         cookie, "optionalAuth:150"))
  /\ UNCHANGED <<gatewayVars, now, storeVars, nextState, nextSid, redemptions, deleted>>

\* The middleware that turns a request without a session away.
OptionalAuthSession_TurnsAway(l, session) ==
  IF session = Null
    THEN Finish(l, Response(401, "Invalid session"))
    ELSE CallEnsureValidToken(l, session, "optionalAuth:154")

OptionalAuthSession(l, session) ==
  IF session = Null
    THEN OptionalAuthCallHandler(l)
    ELSE CallEnsureValidToken(l, session, "optionalAuth:154")

OptionalAuthValid(l, validSession) ==
  [l EXCEPT !.pc = "oa_userinfo", !.valid = validSession]

OptionalAuthUserinfo(p) ==
  /\ proc[p].pc = "oa_userinfo"
  /\ LET l == proc[p] IN
     \/ SetProc(p, OptionalAuthCallHandler(
                     [l EXCEPT !.reqSession = l.valid, !.reqUser = l.valid.userId]))
     \/ SetProc(p, OptionalAuthCallHandler([l EXCEPT !.err = "userinfo"]))
  /\ UNCHANGED <<gatewayVars, now, storeVars, nextState, nextSid, redemptions, deleted>>

OptionalAuthHandler(p) ==
  /\ proc[p].pc = "oa_handler"
  /\ LET l == proc[p] IN
     \/ SetProc(p, Finish(l, HandlerResponse))
     \/ SetProc(p, [l EXCEPT !.pc = "oa_handler2", !.err = "handler",
                      !.handlerCalls = @ + 1])
  /\ UNCHANGED <<gatewayVars, now, storeVars, nextState, nextSid, redemptions, deleted>>

\* optionalAuth line 188: the handler called from the outer catch.
OptionalAuthHandlerAgain(p) ==
  /\ proc[p].pc = "oa_handler2"
  /\ LET l == proc[p] IN
     \/ SetProc(p, Finish(l, HandlerResponse))
     \/ SetProc(p, Failed(l, "handler", Response(500, "unhandled")))
  /\ UNCHANGED <<gatewayVars, now, storeVars, nextState, nextSid, redemptions, deleted>>

\* ------------------------------------------------------------ logout route
ClearSessionCookie(response) == [response EXCEPT !.cookie = Cleared]

LogoutResponse == ClearSessionCookie(Response(200, "success"))

LogoutStart(p) ==
  /\ Free(p)
  /\ \/ SetProc(p, Finish(NewRequest("logout", 0, 0),
                          Response(405, "Method not allowed")))
     \/ SetProc(p, Failed(NewRequest("logout", 0, 0), "store",
                          Response(500, "Logout failed")))
     \/ SetProc(p, Finish(NewRequest("logout", 0, 0), LogoutResponse))
     \/ \E cookie \in IssuedSids \cup {BogusSid} :
          SetProc(p, CallDeleteSession(NewRequest("logout", cookie, 0),
                                       cookie, "logout:33"))
  /\ UNCHANGED <<gatewayVars, now, storeVars, nextState, nextSid, redemptions, deleted>>

\* --------------------------------------------------------- YouTubeAPIClient
\* A token is the sequence of its characters' code points.  The access
\* tokens of the calls are the two of the hashing test, "test-token-1" and
\* "test-token-2".
AccessTokens ==
  {<<116, 101, 115, 116, 45, 116, 111, 107, 101, 110, 45, 49>>,
   <<116, 101, 115, 116, 45, 116, 111, 107, 101, 110, 45, 50>>}

\* TextEncoder.encode: the UTF-8 bytes of the characters, one byte for a code
\* point below 128 and two for one below 2048.
RECURSIVE Encode(_)
Encode(token) ==
  IF token = <<>> THEN <<>>
  ELSE LET c == Head(token) IN
       (IF c < 128 THEN <<c>> ELSE <<192 + (c \div 64), 128 + (c % 64)>>)
         \o Encode(Tail(token))

HexDigits ==
  <<"0", "1", "2", "3", "4", "5", "6", "7", "8", "9", "a", "b", "c", "d", "e", "f">>

\* b.toString(16) of a byte: one digit below 16, two from there on.
ToString16(b) ==
  IF b < 16 THEN <<HexDigits[b + 1]>>
  ELSE <<HexDigits[(b \div 16) + 1], HexDigits[(b % 16) + 1]>>

\* s.padStart(n, fill)
PadStart(s, n, fill) ==
  IF Len(s) < n THEN [k \in 1..(n - Len(s)) |-> fill] \o s ELSE s

\* parts.join('')
RECURSIVE Join(_)
Join(parts) == IF parts = <<>> THEN <<>> ELSE Head(parts) \o Join(Tail(parts))

\* s.substring(start, end)
Substring(s, start, end) == SubSeq(s, start + 1, Min(end, Len(s)))

\* hashToken keeps the first 16 characters.
HashLength == 16

\* The hash whose bytes are written without the leading zero.
HashToken_NoPad(token) ==
  LET data == Encode(token) IN
  Substring(Join([k \in 1..Len(data) |-> ToString16(data[k])]), 0, HashLength)

\* hashToken: the bytes of the token in hex, two digits a byte, cut to the
\* first 16 characters.
HashToken(token) ==
  LET data == Encode(token) IN
  Substring(Join([k \in 1..Len(data) |-> PadStart(ToString16(data[k]), 2, "0")]),
            0, HashLength)

Channels == {1}

\* What the upstream may answer with, and no data.
Payloads == {1, 2}
NoData == 0

MinutesPerDay == 24 * 60

Today == now \div MinutesPerDay

\* What a call that fetched and cached its data did, for the caller that
\* repeats it.
Summary(l) ==
  [result |-> l.result, httpCalls |-> l.httpCalls, cachedUntil |-> l.cachedUntil]

NewCall(p, kind, args) == [IdleProc EXCEPT !.kind = kind, !.args = args]

\* A gateway operation ends: it returns data, or throws err.
FinishGateway(l, err, data) ==
  [Finish([l EXCEPT !.err = err], NoResponse) EXCEPT !.result = data]

\* An operation returns data to the code that called it, or ends the call of
\* a caller that is not modelled.
Returned(l, data) ==
  IF l.stack = <<>> THEN FinishGateway(l, l.err, data) ELSE Return(l, data)

\* An operation throws l.error at the code that called it.
Thrown(l) ==
  IF l.stack = <<>> THEN FinishGateway(l, l.err, NoData) ELSE Raise(l)

\* The handleAPIError that leaves the message as it was.
HandleAPIError_Unnamed(l, operation) ==
  Thrown([l EXCEPT !.items = <<>>])

\* handleAPIError puts the operation's name in front of the message of the
\* error caught; the operation rethrows that error.
HandleAPIError(l, operation) ==
  Thrown([l EXCEPT !.error.operation = operation, !.items = <<>>])

\* An Error as the gateway throws it: message text, and the status, code and
\* quotaExceeded properties where the code sets them.
APIError(text, status, code, quotaExceeded) ==
  [operation |-> "", text |-> text, status |-> status, code |-> code,
   quotaExceeded |-> quotaExceeded]

PlainError(text) == APIError(text, 0, "undefined", FALSE)

CallGetFromCache(l, key, frame) ==
  [l EXCEPT !.pc = "gfc_get", !.ckey = key, !.stack = <<frame>> \o @]

\* The expiry test that always says fresh.
CacheEntryExpired_Never(cacheEntry) == FALSE

CacheEntryExpired(cacheEntry) == now > cacheEntry.expiresAt

GetFromCacheGet(p) ==
  /\ proc[p].pc = "gfc_get"
  /\ LET l == proc[p]
         value == KvGet(cache, l.ckey, Null) IN
     \/ SetProc(p, Return([l EXCEPT !.err = "cacheRead"], NoData))
     \/ SetProc(p, IF value = Null
                     THEN Return(l, NoData)
                     ELSE IF CacheEntryExpired(value)
                            THEN [l EXCEPT !.pc = "gfc_del", !.cacheEntry = value]
                            ELSE Return(l, value.data))
  /\ UNCHANGED <<now, authVars, gatewayVars>>

GetFromCacheDelete(p) ==
  /\ proc[p].pc = "gfc_del"
  /\ LET l == proc[p] IN
     \/ /\ cache' = KvDelete(cache, l.ckey)
        /\ SetProc(p, Return(l, NoData))
     \/ /\ SetProc(p, Return([l EXCEPT !.err = "cacheRead"], NoData))
        /\ UNCHANGED cache
  /\ UNCHANGED <<now, authVars, usage, tracked>>

\* The entry that forgets the payload.
CacheEntry_Blank(data, ttl) ==
  [data |-> NoData, cachedAt |-> now, expiresAt |-> now + ttl, ttl |-> ttl]

\* The entry setCache builds.
CacheEntry(data, ttl) ==
  [data |-> data, cachedAt |-> now, expiresAt |-> now + ttl, ttl |-> ttl]

\* setCache up to its await: the entry is built, then the write is issued.
CallSetCache(l, key, data, ttl, frame) ==
  [l EXCEPT !.pc = "sc_set", !.ckey = key, !.stack = <<frame>> \o @,
            !.cacheEntry = CacheEntry(data, ttl)]

SetCacheSet(p) ==
  /\ proc[p].pc = "sc_set"
  /\ LET l == proc[p]
         e == l.cacheEntry
         m == [l EXCEPT !.cacheEntry = Null] IN
     \/ /\ cache' = KvSet(cache, l.ckey,
                          [data |-> e.data, cachedAt |-> e.cachedAt,
                           expiresAt |-> e.expiresAt, expireAt |-> now + e.ttl])
        /\ SetProc(p, Return([m EXCEPT !.cachedUntil = e.expiresAt,
                                       !.cacheWrites = @ + 1], NoData))
     \/ /\ SetProc(p, Return([m EXCEPT !.err = "cacheWrite"], NoData))
        /\ UNCHANGED cache
  /\ UNCHANGED <<now, authVars, usage, tracked>>

\* Deno KV removes an entry set with expireIn once the time has elapsed.
CacheExpire ==
  /\ \E k \in DOMAIN cache :
       /\ cache[k].expireAt <= now
       /\ cache' = KvDelete(cache, k)
  /\ UNCHANGED <<now, authVars, usage, tracked, proc>>

QuotaCost(endpoint) ==
  CASE endpoint = "subscriptions" -> 1
    [] endpoint = "search" -> 100
    [] endpoint = "videos" -> 1
    [] OTHER -> 1

Endpoints == {"subscriptions", "search", "videos"}

RECURSIVE Total(_, _)
Total(f, keys) ==
  IF keys = {} THEN 0
  ELSE LET k == CHOOSE x \in keys : TRUE IN f[k] + Total(f, keys \ {k})

\* The usage recordings of a day, all endpoints together.
TrackedOn(day) == Total(tracked, {k \in DOMAIN tracked : k[1] = day})

NoUsage == [quotaUsed |-> 0, resetTime |-> now + MinutesPerDay, requestCount |-> 0]

\* The update that counts the request but not its cost.
UpdatedUsage_NoCost(currentUsage, endpoint) ==
  [quotaUsed |-> currentUsage.quotaUsed,
   resetTime |-> currentUsage.resetTime,
   requestCount |-> currentUsage.requestCount + 1]

UpdatedUsage(currentUsage, endpoint) ==
  [quotaUsed |-> currentUsage.quotaUsed + QuotaCost(endpoint),
   resetTime |-> currentUsage.resetTime,
   requestCount |-> currentUsage.requestCount + 1]

\* The key that holds every day's usage.
UsageKey_Shared(today) == 0

\* The key ["api_usage", today] of a day's usage.
UsageKey(today) == today

\* trackAPIUsage up to its first await: the day's key is computed.
CallTrackAPIUsage(l, endpoint, frame) ==
  [l EXCEPT !.pc = "tau_get", !.today = Today, !.endpoint = endpoint,
            !.stack = <<frame>> \o @]

TrackAPIUsageGet(p) ==
  /\ proc[p].pc = "tau_get"
  /\ LET l == proc[p]
         value == KvGet(usage, UsageKey(l.today), Null)
         currentUsage == IF value = Null THEN NoUsage ELSE value IN
     \/ SetProc(p, [l EXCEPT !.pc = "tau_set",
                      !.updatedUsage = UpdatedUsage(currentUsage, l.endpoint)])
     \/ SetProc(p, Return([l EXCEPT !.err = "usage"], NoData))
  /\ UNCHANGED <<now, authVars, gatewayVars>>

TrackAPIUsageSet(p) ==
  /\ proc[p].pc = "tau_set"
  /\ LET l == proc[p]
         m == [l EXCEPT !.updatedUsage = Null] IN
     \/ /\ usage' = KvSet(usage, UsageKey(l.today),
                          [quotaUsed |-> l.updatedUsage.quotaUsed,
                           resetTime |-> l.updatedUsage.resetTime,
                           requestCount |-> l.updatedUsage.requestCount,
                           expireAt |-> now + MinutesPerDay])
        /\ tracked' = KvSet(tracked, <<l.today, l.endpoint>>,
                            KvGet(tracked, <<l.today, l.endpoint>>, 0) + 1)
        /\ SetProc(p, Return([m EXCEPT !.usageWrites = @ + 1], NoData))
     \/ /\ SetProc(p, Return([m EXCEPT !.err = "usage"], NoData))
        /\ UNCHANGED <<usage, tracked>>
  /\ UNCHANGED <<now, authVars, cache>>

\* The usage test: trackAPIUsage called directly for an endpoint, as often
\* a day as MaxTracked allows.
TrackTestStart(p) ==
  /\ Free(p)
  /\ TrackedOn(Today) < MaxTracked
  /\ \E endpoint \in Endpoints :
       SetProc(p, CallTrackAPIUsage(NewCall(p, "trackTest", NoArgs), endpoint,
                                    "trackTest:222"))
  /\ UNCHANGED <<now, authVars, gatewayVars>>

TrackTestTracked(l) == FinishGateway(l, l.err, NoData)

\* Deno KV removes a usage record 24 hours after its last write.
UsageExpire ==
  /\ \E d \in DOMAIN usage :
       /\ usage[d].expireAt <= now
       /\ usage' = KvDelete(usage, d)
  /\ UNCHANGED <<now, authVars, cache, tracked, proc>>

GetUsageStatsStart(p) ==
  /\ Free(p)
  /\ SetProc(p, [NewCall(p, "getUsageStats", NoArgs) EXCEPT
                   !.pc = "gus_get", !.today = Today])
  /\ UNCHANGED <<now, authVars, gatewayVars>>

GetUsageStatsGet(p) ==
  /\ proc[p].pc = "gus_get"
  /\ LET l == proc[p] IN
     \/ SetProc(p, [FinishGateway(l, l.err, NoData) EXCEPT
                      !.stats = KvGet(usage, UsageKey(l.today), Null),
                      !.today = l.today])
     \/ SetProc(p, FinishGateway(l, "usage", NoData))
  /\ UNCHANGED <<now, authVars, gatewayVars>>

\* The key ["rate_limit", "youtube_api"] that checkRateLimit reads is written
\* nowhere in the program: the read finds nothing, or fails.
RateLimitInfo == Null

CallMakeRequest(l, frame) ==
  [l EXCEPT !.pc = "crl_get", !.stack = <<frame>> \o @]

CheckRateLimitGet(p) ==
  /\ proc[p].pc = "crl_get"
  /\ LET l == proc[p] IN
     \/ SetProc(p, Raise([l EXCEPT !.err = "store",
                            !.error = PlainError("kv.get failed")]))
     \/ SetProc(p, IF RateLimitInfo # Null /\ RateLimitInfo.quotaUsed > QuotaThreshold
                     THEN Raise([l EXCEPT !.err = "quotaLimit",
                                   !.error = PlainError("Approaching daily quota limit")])
                     ELSE [l EXCEPT !.pc = "mr_fetch"])
  /\ UNCHANGED <<now, authVars, gatewayVars>>

\* The answers of the upstream that are not a success: status, the reason of
\* the first provider error and the provider's error code ("undefined" when
\* the body carries none).
UpstreamErrors ==
  {[status |-> 403, reason |-> "quotaExceeded", code |-> "403"],
   [status |-> 403, reason |-> "forbidden", code |-> "403"],
   [status |-> 429, reason |-> "rateLimitExceeded", code |-> "429"],
   [status |-> 401, reason |-> "authError", code |-> "401"],
   [status |-> 500, reason |-> "none", code |-> "undefined"]}

MaxBackoffMs == 30000

BackoffTime == Min(1000 * 2^3, MaxBackoffMs)

\* The makeRequest that knows no quota error.
MakeRequestNotOk_NoQuotaError(l, answer) ==
  IF answer.status = 429
    THEN [l EXCEPT !.pc = "mr_backoff", !.waitedMs = @ + BackoffTime]
    ELSE Raise([l EXCEPT !.err = "upstream",
                  !.error = APIError("YouTube API error", answer.status,
                                     answer.code, FALSE)])

\* makeRequest on a response that is not ok.
MakeRequestNotOk(l, answer) ==
  IF answer.status = 403 /\ answer.reason = "quotaExceeded"
    THEN Raise([l EXCEPT !.err = "quotaExceeded",
                  !.error = APIError("YouTube API quota exceeded", 403,
                                     "quotaExceeded", TRUE)])
    ELSE IF answer.status = 429
      THEN [l EXCEPT !.pc = "mr_backoff", !.waitedMs = @ + BackoffTime]
      ELSE Raise([l EXCEPT !.err = "upstream",
                    !.error = APIError("YouTube API error", answer.status,
                                       answer.code, FALSE)])

\* The days of heavy use: 91 search calls are past the threshold.
HeavyCalls == QuotaThreshold \div QuotaCost("search") + 1

\* The upstream serves the requests of a call as long as fewer than
\* MaxRequests requests of earlier calls were served and recorded that day,
\* or that many on top of a day's heavy use.
Served(l) ==
  LET before == TrackedOn(Today) - l.usageWrites IN
  \/ before < MaxRequests
  \/ before >= HeavyCalls /\ before < HeavyCalls + MaxRequests

\* The upstream answers the request of makeRequest, or the fetch fails.
MakeRequestFetch(p) ==
  /\ proc[p].pc = "mr_fetch"
  /\ LET l == [proc[p] EXCEPT !.httpCalls = @ + 1] IN
     \/ /\ Served(l)
        /\ \E data \in Payloads : SetProc(p, Return(l, data))
     \/ \E answer \in UpstreamErrors :
          SetProc(p, MakeRequestNotOk([l EXCEPT !.answer = answer], answer))
     \/ SetProc(p, Raise([l EXCEPT !.err = "network",
                            !.error = PlainError("fetch failed")]))
  /\ UNCHANGED <<now, authVars, gatewayVars>>

\* The backoff whose delay never ends.
MakeRequestBackoff_Never(p) ==
  /\ proc[p].pc = "mr_backoff"
  /\ FALSE
  /\ UNCHANGED vars

\* The backoff that sends the request again.
MakeRequestBackoff_Retry(p) ==
  /\ proc[p].pc = "mr_backoff"
  /\ SetProc(p, [proc[p] EXCEPT !.pc = "mr_fetch"])
  /\ UNCHANGED <<now, authVars, gatewayVars>>

\* handleRateLimit: the backoff delay is over.
MakeRequestBackoff(p) ==
  /\ proc[p].pc = "mr_backoff"
  /\ SetProc(p, Raise([proc[p] EXCEPT !.err = "rateLimited",
                         !.error = PlainError("Rate limited - retry after backoff")]))
  /\ UNCHANGED <<now, authVars, gatewayVars>>

\* The call sites of the read-through operations.
Site(kind, callee) ==
  IF kind = "getSubscriptions"
    THEN CASE callee = "getFromCache" -> "getSubscriptions:119"
           [] callee = "makeRequest" -> "getSubscriptions:138"
           [] callee = "setCache" -> "getSubscriptions:142"
           [] callee = "trackAPIUsage" -> "getSubscriptions:145"
  ELSE IF kind = "getChannelVideos"
    THEN CASE callee = "getFromCache" -> "getChannelVideos:166"
           [] callee = "makeRequest" -> "getChannelVideos:190"
           [] callee = "setCache" -> "getChannelVideos:194"
           [] callee = "trackAPIUsage" -> "getChannelVideos:197"
    ELSE CASE callee = "getFromCache" -> "getVideoDetails:230"
           [] callee = "makeRequest" -> "getVideoDetails:241"
           [] callee = "setCache" -> "getVideoDetails:245"
           [] callee = "trackAPIUsage" -> "getVideoDetails:248"

Endpoint(kind) ==
  CASE kind = "getSubscriptions" -> "subscriptions"
    [] kind = "getChannelVideos" -> "search"
    [] kind = "getVideoDetails" -> "videos"

CacheTTL(kind) ==
  IF kind = "getSubscriptions" THEN SubscriptionsCacheTTL ELSE VideosCacheTTL

GetSubscriptionsStart(p) ==
  /\ Free(p)
  /\ \E accessToken \in AccessTokens :
       SetProc(p, CallGetFromCache(
                    NewCall(p, "getSubscriptions",
                            [NoArgs EXCEPT !.token = accessToken]),
                    <<"subscriptions", HashToken(accessToken), "first", 50>>,
                    Site("getSubscriptions", "getFromCache")))
  /\ UNCHANGED <<now, authVars, gatewayVars>>

\* The caller repeats a getSubscriptions call that returned what it fetched:
\* the same access token, page token and maxResults.
GetSubscriptionsAgain(p) ==
  /\ proc[p].pc = "done"
  /\ proc[p].kind = "getSubscriptions"
  /\ proc[p].result # NoData
  /\ proc[p].httpCalls = 1
  /\ SetProc(p, CallGetFromCache(
                   [NewCall(p, "getSubscriptions", proc[p].args) EXCEPT
                      !.prev = Summary(proc[p])],
                   proc[p].ckey, Site("getSubscriptions", "getFromCache")))
  /\ UNCHANGED <<now, authVars, gatewayVars>>

GetChannelVideosStart(p) ==
  /\ Free(p)
  /\ \E accessToken \in AccessTokens, channelId \in Channels :
       SetProc(p, CallGetFromCache(
                    NewCall(p, "getChannelVideos",
                            [NoArgs EXCEPT !.token = accessToken,
                                           !.channel = channelId]),
                    <<"channel_videos", channelId, "first", 25, "all">>,
                    Site("getChannelVideos", "getFromCache")))
  /\ UNCHANGED <<now, authVars, gatewayVars>>

\* The operation that records usage for a read served from the cache.
GetSubscriptionsCached_Counts(l, cached) ==
  IF cached # NoData
    THEN CallTrackAPIUsage([l EXCEPT !.data = cached], Endpoint(l.kind),
                           Site(l.kind, "trackAPIUsage"))
    ELSE CallMakeRequest(l, Site(l.kind, "makeRequest"))

\* The operation that goes to the upstream whatever the cache holds.
GetSubscriptionsCached_Refetch(l, cached) ==
  CallMakeRequest(l, Site(l.kind, "makeRequest"))

\* After getFromCache: the cached value is returned, or the request is made.
GetSubscriptionsCached(l, cached) ==
  IF cached # NoData
    THEN Returned(l, cached)
    ELSE CallMakeRequest(l, Site(l.kind, "makeRequest"))

\* After makeRequest and response.json(): the data is cached.
GetSubscriptionsResponse(l, data) ==
  CallSetCache([l EXCEPT !.data = data], l.ckey, data, CacheTTL(l.kind),
               Site(l.kind, "setCache"))

\* After setCache: the usage is recorded.
GetSubscriptionsStored(l) ==
  CallTrackAPIUsage(l, Endpoint(l.kind), Site(l.kind, "trackAPIUsage"))

\* After trackAPIUsage: the data is returned.
GetSubscriptionsTracked(l) == Returned(l, l.data)

\* getVideoDetails asks for at most 50 ids in a request.
BatchSize == 50

\* videoIds.slice(i, j): the elements at the 0-based positions i .. j-1.
Slice(videoIds, i, j) ==
  SubSeq(videoIds, i + 1, Min(j, Len(videoIds)))

\* The sort that leaves the ids as they came.
Sort_AsGiven(batch) == batch

\* batch.sort(): the ids of the batch in ascending order (the ids are
\* numbered in the order of their strings).  The k-th of them is the id with
\* fewer than k ids below it and at least k ids not above it.
Sort(batch) ==
  [k \in 1..Len(batch) |->
     CHOOSE x \in {batch[j] : j \in 1..Len(batch)} :
       /\ Cardinality({j \in 1..Len(batch) : batch[j] < x}) < k
       /\ Cardinality({j \in 1..Len(batch) : batch[j] <= x}) >= k]

\* The batches getVideoDetails builds: slices of BatchSize ids, in order.
Batches(videoIds) ==
  [k \in 1..((Len(videoIds) + BatchSize - 1) \div BatchSize) |->
     Slice(videoIds, (k - 1) * BatchSize, k * BatchSize)]

VideoDetailsKey(batch) == <<"video_details", Sort(batch)>>

\* The k-th batch: its ids are sorted in place, the cache key is built from
\* them, and the cache is asked first.
GetVideoDetailsBatch(l, k) ==
  LET batch == Sort(Batches(l.args.ids)[k]) IN
  CallGetFromCache([l EXCEPT !.i = k, !.batch = batch],
                   VideoDetailsKey(batch),
                   Site("getVideoDetails", "getFromCache"))

\* The call that returns after its first batch.
GetVideoDetailsNext_Stops(l, batchData) ==
  FinishGateway([l EXCEPT !.items = Append(@, batchData)], l.err, NoData)

\* The items of a batch are appended; the next batch follows, or the call
\* returns all of them.
GetVideoDetailsNext(l, batchData) ==
  LET m == [l EXCEPT !.items = Append(@, batchData)] IN
  IF l.i < Len(Batches(l.args.ids))
    THEN GetVideoDetailsBatch(m, l.i + 1)
    ELSE FinishGateway(m, m.err, NoData)

GetVideoDetailsStart(p, lists) ==
  /\ Free(p)
  /\ \E accessToken \in AccessTokens, videoIds \in lists :
       LET l == NewCall(p, "getVideoDetails",
                        [NoArgs EXCEPT !.token = accessToken,
                                       !.ids = videoIds]) IN
       SetProc(p, IF Len(videoIds) = 0
                    THEN FinishGateway(l, l.err, NoData)
                    ELSE GetVideoDetailsBatch(l, 1))
  /\ UNCHANGED <<now, authVars, gatewayVars>>

Range(a, b) == [k \in 1..(b - a + 1) |-> a + k - 1]

Reverse(seq) == [k \in 1..Len(seq) |-> seq[Len(seq) + 1 - k]]

\* seq with its first element moved to the end.
Rotate(seq) == [k \in 1..Len(seq) |-> seq[(k % Len(seq)) + 1]]

\* The caller repeats, once, a getVideoDetails call of at most 50 ids that
\* returned what it fetched, with the same ids in another order.
GetVideoDetailsAgain(p) ==
  /\ proc[p].pc = "done"
  /\ proc[p].kind = "getVideoDetails"
  /\ proc[p].prev = Null
  /\ proc[p].httpCalls = 1
  /\ Len(proc[p].items) = 1
  /\ \E videoIds \in {Reverse(proc[p].args.ids), Rotate(proc[p].args.ids)} :
       SetProc(p, [GetVideoDetailsBatch(
                     NewCall(p, "getVideoDetails",
                             [proc[p].args EXCEPT !.ids = videoIds]), 1)
                     EXCEPT !.prev = Summary(proc[p])])
  /\ UNCHANGED <<now, authVars, gatewayVars>>

GetVideoDetailsCached(l, cached) ==
  IF cached # NoData
    THEN GetVideoDetailsNext(l, cached)
    ELSE CallMakeRequest(l, Site(l.kind, "makeRequest"))

GetVideoDetailsTracked(l) == GetVideoDetailsNext(l, l.data)

\* The catch that takes a failed batch for an empty one and goes on.
GetVideoDetailsFailed_Absorbs(l) == GetVideoDetailsNext(l, NoData)

\* The catch around a batch's request: the error is named and thrown on.
GetVideoDetailsFailed(l) == HandleAPIError(l, "getVideoDetails")

\* batchGetChannelVideos runs the calls for at most five channels at a time.
ChannelBatchSize == 5

\* The delay between two groups, in milliseconds.
ChannelDelayMs == 100

\* The slot of the caller of batchGetChannelVideos and the slots of the calls
\* of a group: the closure of the q-th channel of the group runs in slot q.
Caller == 0

Workers == 1..ChannelBatchSize

\* The result with no items that stands in for a channel whose call failed.
EmptyVideos == 0 - 1

\* The groups batchGetChannelVideos builds: slices of five ids, in order.
ChannelBatches(channelIds) ==
  [k \in 1..((Len(channelIds) + ChannelBatchSize - 1) \div ChannelBatchSize) |->
     Slice(channelIds, (k - 1) * ChannelBatchSize, k * ChannelBatchSize)]

\* getChannelVideos as the closure calls it: ten results, first page, no
\* publishedAfter; it runs up to the read of the cache.
CallGetChannelVideos(q, accessToken, channelId) ==
  CallGetFromCache([NewCall(q, "getChannelVideos",
                            [NoArgs EXCEPT !.token = accessToken,
                                           !.channel = channelId])
                      EXCEPT !.stack = <<"batchGetChannelVideos:282">>],
                   <<"channel_videos", channelId, "first", 10, "all">>,
                   Site("getChannelVideos", "getFromCache"))

\* batch.map: every closure of the k-th group is started and runs up to its
\* first await; the caller awaits all of them.
BatchGetChannelVideosGroup(p, l, k) ==
  LET batch == ChannelBatches(l.args.ids)[k] IN
  proc' = [q \in DOMAIN proc |->
             IF q = p THEN [l EXCEPT !.pc = "bgcv_all", !.i = k, !.batch = batch]
             ELSE IF q \in 1..Len(batch)
               THEN CallGetChannelVideos(q, l.args.token, batch[q])
               ELSE proc[q]]

BatchGetChannelVideosStart(p, lists) ==
  /\ Free(p)
  /\ \E accessToken \in AccessTokens, channelIds \in lists :
       LET l == NewCall(p, "batchGetChannelVideos",
                        [NoArgs EXCEPT !.token = accessToken,
                                       !.ids = channelIds]) IN
       IF Len(channelIds) = 0
         THEN SetProc(p, FinishGateway(l, l.err, NoData))
         ELSE BatchGetChannelVideosGroup(p, l, 1)
  /\ UNCHANGED <<now, authVars, gatewayVars>>

\* The closure of a channel has resolved to {channelId, videos}: its locals
\* are gone; caught tells that it resolved from its catch.
ChannelVideosResolved(l, videos, caught) ==
  [IdleProc EXCEPT !.pc = "done", !.kind = "channelVideos",
                   !.args.channel = l.args.channel, !.result = videos,
                   !.err = IF caught THEN "caught" ELSE "none"]

\* The call returned: the closure resolves to its videos.
ChannelVideosReturned(l, videos) == ChannelVideosResolved(l, videos, FALSE)

\* The catch that resolves to nothing at all.
ChannelVideosCaught_NoEntry(l) == ChannelVideosResolved(l, NoData, TRUE)

\* The call threw: the closure logs the error and resolves to the empty
\* result.
ChannelVideosCaught(l) == ChannelVideosResolved(l, EmptyVideos, TRUE)

\* results.set for each closure of the group in order: a channel that is in
\* the group twice keeps what its later closure resolved to.
ResultsSet(results, batch, videos) ==
  [c \in DOMAIN results \cup {batch[q] : q \in 1..Len(batch)} |->
     IF \E q \in 1..Len(batch) : batch[q] = c
       THEN LET last == CHOOSE q \in 1..Len(batch) :
                          /\ batch[q] = c
                          /\ \A r \in 1..Len(batch) : batch[r] = c => r <= q
            IN videos[last]
       ELSE results[c]]

\* The delay after every group.
DelayFollows_Always(batches, k) == TRUE

\* batches.indexOf(batch) < batches.length - 1 for the k-th group: the group
\* is not the last one.
DelayFollows(batches, k) == k < Len(batches)

\* Promise.all resolves once every closure of the group has ended; the
\* results are put into the map, and the delay follows unless the group is the
\* last one; without a delay the loop goes on to the next group, or the map is
\* returned.
BatchGetChannelVideosAll(p) ==
  /\ proc[p].pc = "bgcv_all"
  /\ \A q \in 1..Len(proc[p].batch) : proc[q].pc = "done"
  /\ LET l == proc[p]
         batches == ChannelBatches(l.args.ids)
         videos == [q \in 1..Len(l.batch) |-> proc[q].result]
         m == [l EXCEPT !.results = ResultsSet(@, l.batch, videos)] IN
     IF ~DelayFollows(batches, l.i) /\ l.i < Len(batches)
       THEN BatchGetChannelVideosGroup(p, m, l.i + 1)
       ELSE proc' = [q \in DOMAIN proc |->
                       IF q = p
                         THEN IF DelayFollows(batches, l.i)
                                THEN [m EXCEPT !.pc = "bgcv_delay",
                                               !.waitedMs = @ + ChannelDelayMs]
                                ELSE FinishGateway(m, m.err, NoData)
                       ELSE IF q \in 1..Len(l.batch) THEN IdleProc ELSE proc[q]]
  /\ UNCHANGED <<now, authVars, gatewayVars>>

\* The 100 ms are over: the loop goes on to the next group, or the map is
\* returned.
BatchGetChannelVideosDelay(p) ==
  /\ proc[p].pc = "bgcv_delay"
  /\ IF proc[p].i < Len(ChannelBatches(proc[p].args.ids))
       THEN BatchGetChannelVideosGroup(p, proc[p], proc[p].i + 1)
       ELSE SetProc(p, FinishGateway(proc[p], proc[p].err, NoData))
  /\ UNCHANGED <<now, authVars, gatewayVars>>

\* The characters of the tokens the hashing test tries: a tab, the letter a and
\* an accented letter of two bytes.
HashChars == {9, 97, 233}

\* The tokens of at most n characters.
TokensUpTo(n) == UNION {[1..k -> HashChars] : k \in 0..n}

\* The hashing test: hashToken of a token.
HashTestStart(p) ==
  /\ proc[p].pc = "idle"
  /\ SetProc(p, [NewCall(p, "hashTest", proc[p].args) EXCEPT
                   !.pc = "done", !.ckey = HashToken(proc[p].args.token)])
  /\ UNCHANGED <<now, authVars, gatewayVars>>

\* The test hashes the same token once more and keeps the earlier hash.
HashTestAgain(p) ==
  /\ proc[p].pc = "done"
  /\ proc[p].kind = "hashTest"
  /\ proc[p].prev = Null
  /\ SetProc(p, [proc[p] EXCEPT !.prev = [hash |-> proc[p].ckey],
                                !.ckey = HashToken(proc[p].args.token)])
  /\ UNCHANGED <<now, authVars, gatewayVars>>

\* The cache test: setCache, then getFromCache of the same key.
CacheTestTTLs == {VideosCacheTTL, SubscriptionsCacheTTL}

CacheTestStart(p) ==
  /\ Free(p)
  /\ \E testData \in Payloads, ttl \in CacheTestTTLs :
       SetProc(p, CallSetCache(
                    NewCall(p, "cacheTest",
                            [NoArgs EXCEPT !.payload = testData, !.ttl = ttl]),
                    <<"test-key">>, testData, ttl, "cacheTest:206"))
  /\ UNCHANGED <<now, authVars, gatewayVars>>

CacheTestStored(l) == CallGetFromCache(l, l.ckey, "cacheTest:207")

CacheTestCached(l, cached) == FinishGateway(l, l.err, cached)

CacheStep(p) ==
  \/ GetFromCacheGet(p)
  \/ GetFromCacheDelete(p)
  \/ SetCacheSet(p)

GatewayStep(p) ==
  \/ CacheStep(p)
  \/ CheckRateLimitGet(p)
  \/ MakeRequestFetch(p)
  \/ MakeRequestBackoff(p)
  \/ TrackAPIUsageGet(p)
  \/ TrackAPIUsageSet(p)

\* ------------------------------------------------------- resume and unwind
Return(l, value) ==
  LET frame == Head(l.stack)
      m == [l EXCEPT !.stack = Tail(@)]
  IN CASE frame = "requireAuth:57" -> RequireAuthSession(m, value)
       [] frame = "requireAuth:70" -> RequireAuthValid(m, value)
       [] frame = "optionalAuth:150" -> OptionalAuthSession(m, value)
       [] frame = "optionalAuth:154" -> OptionalAuthValid(m, value)
       [] frame = "deleteSession:164" -> DeleteSessionFound(m, value)
       [] frame = "ensureValidToken:196" ->
            Raise([m EXCEPT !.evt.outcome = "failed", !.evt.at = now])
       [] frame = "logout:33" -> Finish(m, LogoutResponse)
       [] frame \in {"getSubscriptions:119", "getChannelVideos:166"} ->
            GetSubscriptionsCached(m, value)
       [] frame \in {"getSubscriptions:138", "getChannelVideos:190"} ->
            GetSubscriptionsResponse(m, value)
       [] frame \in {"getSubscriptions:142", "getChannelVideos:194"} ->
            GetSubscriptionsStored(m)
       [] frame \in {"getSubscriptions:145", "getChannelVideos:197"} ->
            GetSubscriptionsTracked(m)
       [] frame = "getVideoDetails:230" -> GetVideoDetailsCached(m, value)
       [] frame = "getVideoDetails:241" -> GetSubscriptionsResponse(m, value)
       [] frame = "getVideoDetails:245" -> GetSubscriptionsStored(m)
       [] frame = "getVideoDetails:248" -> GetVideoDetailsTracked(m)
       [] frame = "batchGetChannelVideos:282" -> ChannelVideosReturned(m, value)
       [] frame = "trackTest:222" -> TrackTestTracked(m)
       [] frame = "cacheTest:206" -> CacheTestStored(m)
       [] frame = "cacheTest:207" -> CacheTestCached(m, value)

Raise(l) ==
  LET frame == Head(l.stack)
      m == [l EXCEPT !.stack = Tail(@)]
  IN CASE frame = "requireAuth:57" ->
            Finish(m, Response(500, "Internal server error"))
       [] frame = "requireAuth:70" ->
            Finish(m, Response(401, "Token validation failed"))
       [] frame \in {"optionalAuth:150", "optionalAuth:154"} ->
            OptionalAuthCallHandler(m)
       [] frame = "deleteSession:164" -> Raise(m)
       [] frame = "ensureValidToken:196" ->
            Raise([m EXCEPT !.evt.outcome = "deleteFailed", !.evt.at = now])
       [] frame = "logout:33" -> Finish(m, Response(500, "Logout failed"))
       [] frame \in {"getSubscriptions:138", "getChannelVideos:190"} ->
            HandleAPIError(m, m.kind)
       [] frame = "getVideoDetails:241" -> GetVideoDetailsFailed(m)
       [] frame = "batchGetChannelVideos:282" -> ChannelVideosCaught(m)

SessionStep(p) ==
  \/ GetStoredTokensGet(p)
  \/ GetStoredTokensSet(p)
  \/ DeleteSessionPrimary(p)
  \/ DeleteSessionPointer(p)
  \/ EnsureValidTokenRefresh(p)
  \/ EnsureValidTokenSet(p)

MiddlewareStep(p) ==
  \/ RequireAuthUserinfo(p)
  \/ RequireAuthHandler(p)
  \/ OptionalAuthUserinfo(p)
  \/ OptionalAuthHandler(p)
  \/ OptionalAuthHandlerAgain(p)

\* ---------------------------------------------------------- specifications
\* Login and callback requests, one at a time, over 15 minutes.
NextCsrfSeq ==
  \/ Tick(MaxCsrfTime, BufferTime)
  \/ KvExpire
  \/ \E p \in One : LoginStart(p)
  \/ \E p \in One : LoginSet(p)
  \/ \E p \in One : CallbackStart(p)
  \/ \E p \in One : CallbackStep(p)

SpecCsrfSeq == Init /\ [][NextCsrfSeq]_vars

\* Login and callback requests, two in flight.
NextCsrf ==
  \/ Tick(MaxCsrfTime, BufferTime)
  \/ KvExpire
  \/ \E p \in Procs : LoginStart(p)
  \/ \E p \in Procs : LoginSet(p)
  \/ \E p \in Procs : CallbackStart(p)
  \/ \E p \in Procs : CallbackStep(p)

SpecCsrf == Init /\ [][NextCsrf]_vars

\* getSubscriptions, one call at a time, in steps of ten minutes past the
\* 30 minutes its entries live.
NextCacheSeq ==
  \/ Tick(MaxCacheTime, VideosCacheTTL)
  \/ CacheExpire
  \/ \E p \in One : GetSubscriptionsStart(p)
  \/ \E p \in One : GetSubscriptionsAgain(p)
  \/ \E p \in One : GatewayStep(p)

SpecCacheSeq == Init /\ [][NextCacheSeq]_vars

\* setCache and getFromCache called directly, as the cache test does, with
\* time passing in between.
NextCacheTest ==
  \/ Tick(MaxCacheTime, VideosCacheTTL)
  \/ CacheExpire
  \/ \E p \in One : CacheTestStart(p)
  \/ \E p \in One : CacheStep(p)

SpecCacheTest == Init /\ [][NextCacheTest]_vars

\* A day on which HeavyCalls channel searches were served and recorded: the
\* day's usage is past the threshold.
HeavyUsage ==
  [quotaUsed |-> HeavyCalls * QuotaCost("search"),
   resetTime |-> MinutesPerDay,
   requestCount |-> HeavyCalls,
   expireAt |-> MinutesPerDay]

InitHeavy ==
  /\ now = 0
  /\ oauthStates = <<>>
  /\ sessions = <<>>
  /\ userSessions = <<>>
  /\ cache = <<>>
  /\ usage = KvSet(<<>>, 0, HeavyUsage)
  /\ tracked = KvSet(<<>>, <<0, "search">>, HeavyCalls)
  /\ nextState = 1
  /\ nextSid = 1
  /\ redemptions = <<>>
  /\ deleted = {}
  /\ proc = [p \in Procs |-> IdleProc]

\* The read operations on a day of heavy use, one call at a time.
NextQuota ==
  \/ Tick(MaxCacheTime, SubscriptionsCacheTTL)
  \/ CacheExpire
  \/ \E p \in One : GetSubscriptionsStart(p)
  \/ \E p \in One : GetChannelVideosStart(p)
  \/ \E p \in One : GatewayStep(p)

SpecQuota == InitHeavy /\ [][NextQuota]_vars

HalfDay == MinutesPerDay \div 2

\* trackAPIUsage and getUsageStats called directly, as the usage test does,
\* one call at a time, twice a day over the days.
NextUsageSeq ==
  \/ Tick(MaxHalfDays * HalfDay, HalfDay)
  \/ UsageExpire
  \/ \E p \in One : TrackTestStart(p)
  \/ \E p \in One : TrackAPIUsageGet(p)
  \/ \E p \in One : TrackAPIUsageSet(p)
  \/ \E p \in One : GetUsageStatsStart(p)
  \/ \E p \in One : GetUsageStatsGet(p)

SpecUsageSeq == Init /\ [][NextUsageSeq]_vars

\* Calls that record usage, two in flight within one day, as the calls of the
\* batch fan-out are.
NextUsageRace ==
  \/ \E p \in Procs : TrackTestStart(p)
  \/ \E p \in Procs : TrackAPIUsageGet(p)
  \/ \E p \in Procs : TrackAPIUsageSet(p)

SpecUsageRace == Init /\ [][NextUsageRace]_vars

\* The lists of video ids a caller passes: none, one, a full batch, one more
\* than a batch, MaxIds distinct ids in ascending and in descending order, and
\* a batch of ids followed by the same ids again.
IdLists ==
  {<<>>, Range(1, 1), Range(1, BatchSize), Range(1, BatchSize + 1),
   Range(1, MaxIds), Reverse(Range(1, MaxIds)),
   Range(1, BatchSize) \o Reverse(Range(1, BatchSize))}

\* The caller holds one of the lists; nothing is stored yet.
InitDetails ==
  /\ now = 0
  /\ oauthStates = <<>>
  /\ sessions = <<>>
  /\ userSessions = <<>>
  /\ cache = <<>>
  /\ usage = <<>>
  /\ tracked = <<>>
  /\ nextState = 1
  /\ nextSid = 1
  /\ redemptions = <<>>
  /\ deleted = {}
  /\ \E videoIds \in IdLists :
       proc = [p \in Procs |-> [IdleProc EXCEPT !.args.ids = videoIds]]

\* One call of getVideoDetails with the caller's list on the empty store,
\* within the minute: nothing expires.
NextDetails ==
  \/ \E p \in One : proc[p].pc = "idle" /\ GetVideoDetailsStart(p, {proc[p].args.ids})
  \/ \E p \in One : GetFromCacheGet(p)
  \/ \E p \in One : SetCacheSet(p)
  \/ \E p \in One : CheckRateLimitGet(p)
  \/ \E p \in One : MakeRequestFetch(p)
  \/ \E p \in One : MakeRequestBackoff(p)
  \/ \E p \in One : TrackAPIUsageGet(p)
  \/ \E p \in One : TrackAPIUsageSet(p)

SpecDetails == InitDetails /\ [][NextDetails]_vars

\* getVideoDetails calls for at most 50 ids, one at a time, in steps of five
\* minutes past the ten minutes their entries live: the call with the
\* caller's list, then the same ids in another order.
NextDetailsAgain ==
  \/ Tick(VideosCacheTTL + VideosCacheTTL \div 2, VideosCacheTTL \div 2)
  \/ CacheExpire
  \/ \E p \in One : /\ proc[p].pc = "idle"
                     /\ Len(proc[p].args.ids) <= BatchSize
                     /\ GetVideoDetailsStart(p, {proc[p].args.ids})
  \/ \E p \in One : GetVideoDetailsAgain(p)
  \/ \E p \in One : GatewayStep(p)

SpecDetailsAgain == InitDetails /\ [][NextDetailsAgain]_vars

\* The test holds a token of at most MaxTokenChars characters.
InitHash ==
  /\ now = 0
  /\ oauthStates = <<>>
  /\ sessions = <<>>
  /\ userSessions = <<>>
  /\ cache = <<>>
  /\ usage = <<>>
  /\ tracked = <<>>
  /\ nextState = 1
  /\ nextSid = 1
  /\ redemptions = <<>>
  /\ deleted = {}
  /\ \E token \in TokensUpTo(MaxTokenChars) :
       proc = [p \in Procs |-> [IdleProc EXCEPT !.args.token = token]]

NextHash ==
  \/ \E p \in One : HashTestStart(p)
  \/ \E p \in One : HashTestAgain(p)

SpecHash == InitHash /\ [][NextHash]_vars

\* The lists of channel ids a caller passes: none, one, two channels, one
\* channel twice, and MaxChannels channels, more than a group holds.
ChannelLists ==
  {<<>>, Range(1, 1), Range(1, 2), <<1, 1>>, Range(1, MaxChannels)}

\* The caller holds one of the lists; nothing is stored yet.
InitBatch ==
  /\ now = 0
  /\ oauthStates = <<>>
  /\ sessions = <<>>
  /\ userSessions = <<>>
  /\ cache = <<>>
  /\ usage = <<>>
  /\ tracked = <<>>
  /\ nextState = 1
  /\ nextSid = 1
  /\ redemptions = <<>>
  /\ deleted = {}
  /\ \E channelIds \in ChannelLists :
       proc = [p \in {Caller} \cup Workers |->
                 [IdleProc EXCEPT !.args.ids = IF p = Caller THEN channelIds ELSE <<>>]]

\* A call of the group has got the answer of its first read and has not ended.
Running(q) == proc[q].pc \notin {"idle", "gfc_get", "done"}

\* The store answers the first reads of a group in the order they were
\* issued, and the next one while fewer than MaxRunning calls of the group
\* are running; the other calls of the group wait for theirs.
MayRun(q) ==
  /\ \A r \in Workers : r < q => proc[r].pc # "gfc_get"
  /\ Cardinality({r \in Workers : Running(r)}) < MaxRunning

\* The store answers the cache and usage access that call q makes in its step:
\* no failure is swallowed.
CacheAnswers(q) ==
  /\ proc'[q].err \notin {"cacheRead", "cacheWrite"}
  /\ proc[q].pc = "tau_get" => proc'[q].pc = "tau_set"
  /\ proc[q].pc = "tau_set" => tracked' # tracked

\* One call of batchGetChannelVideos with the caller's list on the empty
\* store, within the minute; the calls of a group that are running take their
\* steps in any order.  The cache and the usage record answer; the read of
\* the quota check, the upstream and the network may fail.
NextBatch ==
  \/ /\ proc[Caller].pc = "idle"
     /\ BatchGetChannelVideosStart(Caller, {proc[Caller].args.ids})
  \/ BatchGetChannelVideosAll(Caller)
  \/ BatchGetChannelVideosDelay(Caller)
  \/ \E q \in Workers : MayRun(q) /\ GetFromCacheGet(q) /\ CacheAnswers(q)
  \/ \E q \in Workers : SetCacheSet(q) /\ CacheAnswers(q)
  \/ \E q \in Workers : CheckRateLimitGet(q)
  \/ \E q \in Workers : MakeRequestFetch(q)
  \/ \E q \in Workers : MakeRequestBackoff(q)
  \/ \E q \in Workers : TrackAPIUsageGet(q) /\ CacheAnswers(q)
  \/ \E q \in Workers : TrackAPIUsageSet(q) /\ CacheAnswers(q)

SpecBatch == InitBatch /\ [][NextBatch]_vars

\* The store answers the first read of a call when the calls before it in the
\* group have settled.
InTurn(q) == \A r \in Workers : r < q => proc[r].pc = "done"

\* One call of batchGetChannelVideos where the calls of a group get their
\* answers one call after the other.  The cache and the usage record answer;
\* the read of the quota check, the upstream and the network may fail.
NextBatchInTurn ==
  \/ /\ proc[Caller].pc = "idle"
     /\ BatchGetChannelVideosStart(Caller, {proc[Caller].args.ids})
  \/ BatchGetChannelVideosAll(Caller)
  \/ BatchGetChannelVideosDelay(Caller)
  \/ \E q \in Workers : InTurn(q) /\ GetFromCacheGet(q) /\ CacheAnswers(q)
  \/ \E q \in Workers : SetCacheSet(q) /\ CacheAnswers(q)
  \/ \E q \in Workers : CheckRateLimitGet(q)
  \/ \E q \in Workers : MakeRequestFetch(q)
  \/ \E q \in Workers : MakeRequestBackoff(q)
  \/ \E q \in Workers : TrackAPIUsageGet(q) /\ CacheAnswers(q)
  \/ \E q \in Workers : TrackAPIUsageSet(q) /\ CacheAnswers(q)

\* The runtime goes on taking the steps that are ready: every store access,
\* upstream request and timer that was started ends.
SpecBatchLive == InitBatch /\ [][NextBatchInTurn]_vars /\ WF_vars(NextBatchInTurn)

\* Two callers, each making one getSubscriptions call with an access token of
\* its own choice, both in flight within the minute on the empty store.
NextTwoCallers ==
  \/ \E p \in Procs : proc[p].pc = "idle" /\ GetSubscriptionsStart(p)
  \/ \E p \in Procs : GetFromCacheGet(p)
  \/ \E p \in Procs : SetCacheSet(p)
  \/ \E p \in Procs : CheckRateLimitGet(p)
  \/ \E p \in Procs : MakeRequestFetch(p)
  \/ \E p \in Procs : MakeRequestBackoff(p)
  \/ \E p \in Procs : TrackAPIUsageGet(p)
  \/ \E p \in Procs : TrackAPIUsageSet(p)

SpecTwoCallers == Init /\ [][NextTwoCallers]_vars

\* The store as the callbacks of earlier logins left it: n sessions of the
\* user, each created by storeTokens at time 0 from the tokens of a code
\* exchange, the user's pointer on the newest.
Seeded(n) ==
  /\ now = 0
  /\ oauthStates = <<>>
  /\ \E lives \in [1..n -> Lifetimes] :
       sessions = [i \in 1..n |->
                     NewSession(i, 1, ExchangeCodeForTokens(lives[i]))]
  /\ userSessions = [u \in {x \in Users : n > 0} |-> n]
  /\ cache = <<>>
  /\ usage = <<>>
  /\ tracked = <<>>
  /\ nextSid = n + 1
  /\ nextState = 1
  /\ redemptions = <<>>
  /\ deleted = {}
  /\ proc = [p \in Procs |-> IdleProc]

InitSess == \E n \in 0..MaxSeed : Seeded(n)

\* The user logged in once more: the pointer is on the newer session.
InitSessTwice == Seeded(MaxSeed + 1)

\* The middleware and logout, one request at a time, minute by minute.
NextSessSeq ==
  \/ Tick(MaxTime, 1)
  \/ \E p \in One : RequireAuthStart(p)
  \/ \E p \in One : OptionalAuthStart(p)
  \/ \E p \in One : LogoutStart(p)
  \/ \E p \in One : SessionStep(p)
  \/ \E p \in One : MiddlewareStep(p)

SpecSessSeq == InitSess /\ [][NextSessSeq]_vars

\* Login and callback requests, one at a time and within the minute, of a
\* user who may have a session from an earlier login.
NextLoginAgain ==
  \/ \E p \in One : LoginStart(p)
  \/ \E p \in One : LoginSet(p)
  \/ \E p \in One : CallbackStart(p)
  \/ \E p \in One : CallbackStep(p)

SpecLoginAgain == InitSess /\ [][NextLoginAgain]_vars

\* The same requests after the user logged in twice.
SpecSessTwice == InitSessTwice /\ [][NextSessSeq]_vars

\* requireAuth and logout, two requests in flight.
NextRace ==
  \/ Tick(MaxTime, 1)
  \/ \E p \in Procs : RequireAuthStart(p)
  \/ \E p \in Procs : LogoutStart(p)
  \/ \E p \in Procs : SessionStep(p)
  \/ \E p \in Procs : RequireAuthUserinfo(p)
  \/ \E p \in Procs : RequireAuthHandler(p)

SpecRace == InitSess /\ [][NextRace]_vars

\* ------------------------------------------------------------- properties
Redeemed(state) == KvGet(redemptions, state, 0) > 0

\* The store answered the step process p takes.
StoreAnswers(p) == proc'[p] # proc[p] /\ proc'[p].err # "store"

Ended(p, kind) == proc[p].pc = "done" /\ proc[p].kind = kind

\* C1: a state value issued by login is good for one callback.  The callback
\* that looks it up while it is stored and not yet redeemed passes the check;
\* every callback that looks it up after it was redeemed is answered 400,
\* however long after (the store answering the lookup in both cases).
C1_SingleUse ==
  [][\A p \in Procs :
       (proc[p].pc = "cb_get" /\ StoreAnswers(p)) =>
         /\ Redeemed(proc[p].qstate) =>
              /\ proc'[p].pc = "done"
              /\ proc'[p].resp = Response(400, "Invalid or expired state")
         /\ (proc[p].qstate \in DOMAIN oauthStates /\ ~Redeemed(proc[p].qstate)) =>
              proc'[p].pc = "cb_set"]_vars

\* A replay of a redeemed state was answered 400 after the state's original
\* ten minutes had run out.
C1_Witness ==
  \E p \in Procs :
    /\ Ended(p, "callback")
    /\ Redeemed(proc[p].qstate)
    /\ proc[p].resp = Response(400, "Invalid or expired state")
    /\ now >= oauthStates[proc[p].qstate].createdAt + StateTTL

\* C2: of the callbacks that carry one state value, in flight together or
\* not, at most one passes the state check and goes on to the exchange.
C2_AtMostOnePass == \A s \in DOMAIN redemptions : redemptions[s] <= 1

\* C3 as stated: whatever lifetime the provider reports, a session that
\* ensureValidToken returns expires at least five minutes after the return.
C3_FiveMinutesLeft ==
  \A p \in Procs :
    proc[p].pc \in {"ra_userinfo", "oa_userinfo"} =>
      proc[p].valid.tokenExpiresAt >= proc[p].evt.at + BufferTime

\* C3: a session ensureValidToken returns without a refresh expires at least
\* five minutes after the return; one it returns after a refresh expires at
\* the time of the refresh plus the lifetime the provider reported, so five
\* minutes or more after the refresh only when that lifetime is five minutes
\* or more.
C3_Amended ==
  \A p \in Procs :
    proc[p].pc \in {"ra_userinfo", "oa_userinfo"} =>
      LET e == proc[p].evt
          returned == proc[p].valid.tokenExpiresAt IN
      /\ e.outcome \in {"kept", "refreshed"}
      /\ e.outcome = "kept" => returned >= e.at + BufferTime
      /\ e.outcome = "refreshed" =>
           /\ returned = e.refreshedAt + e.life
           /\ e.life >= BufferTime => returned >= e.refreshedAt + BufferTime

\* ensureValidToken returned a session it had refreshed with a lifetime of
\* five minutes or more, five minutes or more before its expiry.
C3_Witness ==
  \E p \in Procs :
    /\ proc[p].pc \in {"ra_userinfo", "oa_userinfo"}
    /\ proc[p].evt.outcome = "refreshed"
    /\ proc[p].evt.life >= BufferTime
    /\ proc[p].valid.tokenExpiresAt >= proc[p].evt.at + BufferTime

\* C4: when the refresh request fails, ensureValidToken raises with both the
\* session's record and its user's pointer absent from the store.
C4_FailedRefreshLeavesNothing ==
  [][\A p \in Procs :
       (/\ proc[p].err = "refresh"
        /\ proc[p].evt.outcome = "none"
        /\ proc'[p].evt.outcome = "failed") =>
         /\ proc[p].evt.id \notin DOMAIN sessions'
         /\ proc[p].evt.user \notin DOMAIN userSessions']_vars

\* C5: a session id that was deleted is never in the store again.
C5_DeletedStaysDeleted == \A sid \in deleted : sid \notin DOMAIN sessions

\* C6 as stated: a refresh that succeeds is the only refresh request of the
\* call, the updated session is stored under the id of the session passed
\* in, and the session returned expires later than the one passed in.
C6_LaterExpiry ==
  \A p \in Procs :
    (proc[p].pc \in {"ra_userinfo", "oa_userinfo"}
       /\ proc[p].evt.outcome = "refreshed") =>
      /\ proc[p].refreshCalls = 1
      /\ proc[p].valid.id = proc[p].evt.id
      /\ KvGet(sessions, proc[p].evt.id, Null) = proc[p].valid
      /\ proc[p].valid.tokenExpiresAt > proc[p].evt.given

\* C6: a refresh that succeeds is the only refresh request of the call, the
\* updated session is stored under the id of the session passed in, and the
\* session returned expires at the time of the refresh plus the reported
\* lifetime: later than the one passed in whenever that lifetime is five
\* minutes or more.
C6_Amended ==
  \A p \in Procs :
    (proc[p].pc \in {"ra_userinfo", "oa_userinfo"}
       /\ proc[p].evt.outcome = "refreshed") =>
      /\ proc[p].refreshCalls = 1
      /\ proc[p].valid.id = proc[p].evt.id
      /\ KvGet(sessions, proc[p].evt.id, Null) = proc[p].valid
      /\ proc[p].valid.tokenExpiresAt = proc[p].evt.refreshedAt + proc[p].evt.life
      /\ proc[p].evt.life >= BufferTime =>
           proc[p].valid.tokenExpiresAt > proc[p].evt.given

\* A session inside the buffer was refreshed with a lifetime that covers the
\* buffer, stored and returned with a later expiry.
C6_Witness ==
  \E p \in Procs :
    /\ proc[p].pc \in {"ra_userinfo", "oa_userinfo"}
    /\ proc[p].evt.outcome = "refreshed"
    /\ proc[p].refreshCalls = 1
    /\ proc[p].evt.life >= BufferTime
    /\ proc[p].valid.tokenExpiresAt > proc[p].evt.given
    /\ sessions[proc[p].evt.id] = proc[p].valid

\* C7: deleteSession removes the session's record, and removes the user's
\* pointer when it names that session; a pointer that names another session
\* stays, and getUserSession goes on finding that session.
C7_PointerOfOtherSessionStays ==
  [][\A p \in Procs :
       (proc[p].pc = "ds_del2" /\ StoreAnswers(p)) =>
         LET u == proc[p].duid IN
         /\ proc[p].sid \notin DOMAIN sessions'
         /\ (u \in DOMAIN userSessions /\ userSessions[u] = proc[p].sid) =>
              u \notin DOMAIN userSessions'
         /\ (u \in DOMAIN userSessions /\ userSessions[u] # proc[p].sid) =>
              /\ u \in DOMAIN userSessions'
              /\ userSessions'[u] = userSessions[u]
              /\ GetUserSession(u)' = GetUserSession(u)]_vars

\* C8 as stated: requireAuth calls the handler at most once, only with a
\* cookie, a session found, a valid token and a profile; a request whose
\* handler is not called is answered 401.
C8_Only401 ==
  \A p \in Procs :
    Ended(p, "requireAuth") =>
      /\ proc[p].handlerCalls <= 1
      /\ proc[p].handlerCalls = 1 =>
           /\ proc[p].cookie # 0
           /\ proc[p].reqSession # Null
           /\ proc[p].reqUser # 0
           /\ proc[p].evt.outcome \in {"kept", "refreshed"}
      /\ proc[p].handlerCalls = 0 => proc[p].resp.status = 401

\* C8: requireAuth calls the handler at most once, only with a cookie, a
\* session found, a valid token and a profile; a request whose handler is not
\* called is answered 401, or 500 when the store itself failed while the
\* session was read.
C8_Amended ==
  \A p \in Procs :
    Ended(p, "requireAuth") =>
      /\ proc[p].handlerCalls <= 1
      /\ proc[p].handlerCalls = 1 =>
           /\ proc[p].cookie # 0
           /\ proc[p].reqSession # Null
           /\ proc[p].reqUser # 0
           /\ proc[p].evt.outcome \in {"kept", "refreshed"}
      /\ proc[p].handlerCalls = 0 =>
           \/ proc[p].resp.status = 401
           \/ /\ proc[p].resp.status = 500
              /\ proc[p].err = "store"
              /\ proc[p].evt.outcome = "none"

\* A request with a session whose refresh failed ended with 401 and the
\* handler not called.
C8_Witness ==
  \E p \in Procs :
    /\ Ended(p, "requireAuth")
    /\ proc[p].evt.outcome = "failed"
    /\ proc[p].handlerCalls = 0
    /\ proc[p].resp.status = 401

\* C9: optionalAuth calls the handler for every request; session and user are
\* attached together, and only for a request with a cookie whose session was
\* found and valid and whose profile was fetched.
C9_HandlerAlwaysRuns ==
  \A p \in Procs :
    proc[p].kind = "optionalAuth" =>
      /\ proc[p].pc = "done" => proc[p].handlerCalls >= 1
      /\ (proc[p].reqSession = Null) <=> (proc[p].reqUser = 0)
      /\ proc[p].reqSession # Null =>
           /\ proc[p].cookie # 0
           /\ proc[p].reqSession.id = proc[p].cookie
           /\ proc[p].evt.outcome \in {"kept", "refreshed"}
           /\ proc[p].err = "none" \/ proc[p].pc \in {"oa_handler2", "done"}

\* A request whose refresh failed ended with the handler run and nothing
\* attached.
C9_Witness ==
  \E p \in Procs :
    /\ Ended(p, "optionalAuth")
    /\ proc[p].evt.outcome = "failed"
    /\ proc[p].handlerCalls >= 1
    /\ proc[p].reqSession = Null
    /\ proc[p].reqUser = 0

\* C10: the cache never returns an entry after its expiresAt.  A getFromCache
\* whose read finds an entry at a time later than the entry's expiresAt issues
\* the delete of the key and reports a miss; the key is gone once the store
\* has performed the delete; and data that getFromCache returns is the data
\* of an entry whose expiresAt has not passed.
C10_NoStaleRead ==
  [][\A p \in Procs :
       LET k == proc[p].ckey
           read == proc[p].pc = "gfc_get" /\ proc'[p] # proc[p] IN
       /\ (read /\ k \in DOMAIN cache /\ now > cache[k].expiresAt) =>
            /\ proc'[p].result = NoData
            /\ \/ proc'[p].pc = "gfc_del" /\ proc'[p].cacheEntry = cache[k]
               \/ proc'[p].pc \in {"crl_get", "done"} /\ proc'[p].err = "cacheRead"
       /\ (read /\ proc'[p].result # NoData) =>
            /\ k \in DOMAIN cache
            /\ now <= cache[k].expiresAt
            /\ proc'[p].result = cache[k].data
       /\ (proc[p].pc = "gfc_del" /\ proc'[p] # proc[p]) =>
            /\ proc'[p].result = NoData
            /\ proc'[p].pc \in {"crl_get", "done"}
            /\ proc'[p].err # "cacheRead" => k \notin DOMAIN cache']_vars

\* A read found an entry past its expiresAt, deleted it and reported a miss:
\* the call goes on to the upstream.
C10_Witness ==
  \E p \in Procs :
    /\ proc[p].pc = "crl_get"
    /\ proc[p].cacheEntry # Null
    /\ now > proc[p].cacheEntry.expiresAt
    /\ proc[p].err = "none"
    /\ proc[p].ckey \notin DOMAIN cache

\* C11: the cache round trip.  A getFromCache of a key, after a setCache of
\* the key with a payload and a TTL whose write the store performed, read
\* before the TTL counted from the setCache has run out and with no other
\* write of the key in between, returns the payload that was stored.
C11_RoundTrip ==
  [][\A p \in Procs :
       (/\ proc[p].kind = "cacheTest"
        /\ proc[p].pc = "gfc_get"
        /\ proc[p].err = "none"
        /\ proc'[p] # proc[p]
        /\ proc'[p].err = "none"
        /\ now < proc[p].cachedUntil) =>
         /\ proc'[p].pc = "done"
         /\ proc'[p].result = proc[p].args.payload]_vars

\* A payload was stored with the write landing after the entry was stamped,
\* and read back unchanged before the TTL ran out.
C11_Witness ==
  \E p \in Procs :
    /\ Ended(p, "cacheTest")
    /\ proc[p].err = "none"
    /\ proc[p].result = proc[p].args.payload
    /\ proc[p].ckey \in DOMAIN cache
    /\ cache[proc[p].ckey].expireAt > cache[proc[p].ckey].expiresAt
    /\ now < proc[p].cachedUntil

\* C12: two consecutive getSubscriptions calls with the same access token,
\* page token and maxResults make one upstream request.  The second call,
\* started after the first returned the data it fetched and cached, and
\* reading the cache before the 30 minutes of the first call's entry are
\* over, ends at that read: it makes no upstream request of its own, the one
\* request being the first call's, and returns the first call's data.
C12_OneUpstreamRequest ==
  [][\A p \in Procs :
       (/\ proc[p].kind = "getSubscriptions"
        /\ proc[p].prev # Null
        /\ proc[p].pc = "gfc_get"
        /\ proc'[p] # proc[p]
        /\ proc'[p].err = "none"
        /\ proc[p].prev.cachedUntil # Never
        /\ now < proc[p].prev.cachedUntil) =>
         /\ proc'[p].pc = "done"
         /\ proc'[p].result = proc[p].prev.result
         /\ proc[p].prev.httpCalls + proc'[p].httpCalls = 1]_vars

\* A repeated call, made some time after the first and inside the 30
\* minutes, returned the first call's data without an upstream request.
C12_Witness ==
  \E p \in Procs :
    /\ Ended(p, "getSubscriptions")
    /\ proc[p].prev # Null
    /\ proc[p].prev.httpCalls = 1
    /\ proc[p].httpCalls = 0
    /\ proc[p].result = proc[p].prev.result
    /\ proc[p].ckey \in DOMAIN cache
    /\ cache[proc[p].ckey].cachedAt < now
    /\ now < proc[p].prev.cachedUntil

\* C13: once the usage the gateway recorded for the current day is past the
\* threshold of 9000 units, a read operation that missed the cache is refused
\* at the quota check: it ends there with a quota error and makes no upstream
\* request.
C13_RefusedPastThreshold ==
  [][\A p \in Procs :
       (/\ proc[p].pc = "crl_get"
        /\ StoreAnswers(p)
        /\ Today \in DOMAIN usage
        /\ usage[Today].quotaUsed > QuotaThreshold) =>
         /\ proc'[p].pc = "done"
         /\ proc'[p].err = "quotaLimit"
         /\ proc'[p].httpCalls = 0]_vars

\* The cost of the recordings of a day, endpoint by endpoint.
RECURSIVE CostOf(_, _)
CostOf(day, endpoints) ==
  IF endpoints = {} THEN 0
  ELSE LET e == CHOOSE x \in endpoints : TRUE IN
       KvGet(tracked, <<day, e>>, 0) * QuotaCost(e) + CostOf(day, endpoints \ {e})

\* C14: with the calls made one after another and no usage record to start
\* with, the record of the current day counts the calls recorded that day
\* and adds up their costs: after N calls of one kind quotaUsed is N times
\* the cost of the kind (1 for subscriptions, 100 for search, 1 for videos)
\* and requestCount is N.  getUsageStats returns null as long as no call was
\* recorded for its day, and the day's record after that.
C14_CountTimesCost ==
  /\ Today \in DOMAIN usage =>
       /\ usage[Today].requestCount = TrackedOn(Today)
       /\ usage[Today].quotaUsed = CostOf(Today, Endpoints)
       /\ \A e \in Endpoints :
            KvGet(tracked, <<Today, e>>, 0) = TrackedOn(Today) =>
              usage[Today].quotaUsed = TrackedOn(Today) * QuotaCost(e)
  /\ \A p \in Procs :
       (Ended(p, "getUsageStats") /\ proc[p].err = "none") =>
         /\ TrackedOn(proc[p].today) = 0 => proc[p].stats = Null
         /\ proc[p].today = Today =>
              proc[p].stats = KvGet(usage, Today, Null)

\* getUsageStats returned the record of a day on which two search calls had
\* been recorded: 200 units and two requests.
C14_Witness ==
  \E p \in Procs :
    /\ Ended(p, "getUsageStats")
    /\ proc[p].today = Today
    /\ proc[p].stats # Null
    /\ KvGet(tracked, <<Today, "search">>, 0) = 2
    /\ TrackedOn(Today) = 2
    /\ proc[p].stats.quotaUsed = 2 * 100
    /\ proc[p].stats.requestCount = 2

\* C15: within a day the quotaUsed of the day's stored record never
\* decreases, however the calls that record usage interleave.
C15_QuotaUsedNeverDecreases ==
  [][\A d \in DOMAIN usage :
       d \in DOMAIN usage' => usage'[d].quotaUsed >= usage[d].quotaUsed]_vars

\* C16: usage is kept day by day.  A recording made for day D leaves the
\* record of every other day as it was and, the store performing the write,
\* leaves a record under D; reading the usage changes no record; and the
\* first read for a day with nothing recorded finds no usage, whatever the
\* days before left: trackAPIUsage starts the day from zero and getUsageStats
\* returns null.
C16_DayByDay ==
  [][\A p \in Procs :
       LET l == proc[p]
           step == proc'[p] # l
           fresh == TrackedOn(l.today) = 0 /\ l.today = Today IN
       /\ (l.pc = "tau_set" /\ step) =>
            /\ \A d \in (DOMAIN usage \cup DOMAIN usage') \ {l.today} :
                 KvGet(usage', d, Null) = KvGet(usage, d, Null)
            /\ proc'[p].err = "none" =>
                 /\ l.today \in DOMAIN usage'
                 /\ usage'[l.today].requestCount >= 1
       /\ (l.pc \in {"tau_get", "gus_get"} /\ step) => usage' = usage
       /\ (l.pc = "tau_get" /\ step /\ proc'[p].err = "none" /\ fresh) =>
            /\ proc'[p].updatedUsage.quotaUsed = QuotaCost(l.endpoint)
            /\ proc'[p].updatedUsage.requestCount = 1
       /\ (l.pc = "gus_get" /\ step /\ proc'[p].err = "none" /\ fresh) =>
            proc'[p].stats = Null]_vars

\* On the second day, with the first day's record still stored, getUsageStats
\* returned null.
C16_Witness ==
  \E p \in Procs :
    /\ Ended(p, "getUsageStats")
    /\ proc[p].err = "none"
    /\ proc[p].today = 1
    /\ proc[p].stats = Null
    /\ 0 \in DOMAIN usage
    /\ usage[0].requestCount >= 1

\* The upstream's answer 403 with the reason quotaExceeded.
QuotaAnswer == [status |-> 403, reason |-> "quotaExceeded", code |-> "403"]

\* C17: a gateway operation whose upstream request is answered 403 with the
\* reason quotaExceeded throws an error flagged quotaExceeded, with status
\* 403 and code quotaExceeded; it returns no data, writes no cache entry and
\* records no usage.
C17_QuotaExceededError ==
  \A p \in Procs :
    (proc[p].pc = "done" /\ proc[p].answer = QuotaAnswer) =>
      /\ proc[p].error # Null
      /\ proc[p].error.quotaExceeded
      /\ proc[p].error.status = 403
      /\ proc[p].error.code = "quotaExceeded"
      /\ proc[p].result = NoData
      /\ proc[p].cacheWrites = 0
      /\ proc[p].usageWrites = 0
      /\ proc[p].cachedUntil = Never

\* A getSubscriptions call answered 403 quotaExceeded ended with the flagged
\* error, its key not in the cache and no usage recorded.
C17_Witness ==
  \E p \in Procs :
    /\ Ended(p, "getSubscriptions")
    /\ proc[p].answer = QuotaAnswer
    /\ proc[p].error # Null
    /\ proc[p].error.quotaExceeded
    /\ proc[p].ckey \notin DOMAIN cache
    /\ usage = <<>>

\* The upstream's answer 429.
RateLimitAnswer == [status |-> 429, reason |-> "rateLimitExceeded", code |-> "429"]

\* C18: a 429 from the upstream makes the gateway wait once, for a delay of
\* at most 30 seconds, and then throw; the request is not sent again.  A call
\* of getSubscriptions or getChannelVideos sends at most one upstream
\* request, and the call answered 429 caches nothing and records no usage.
C18_OneBoundedBackoff ==
  \A p \in Procs :
    proc[p].kind \in {"getSubscriptions", "getChannelVideos"} =>
      /\ proc[p].httpCalls <= 1
      /\ proc[p].waitedMs <= MaxBackoffMs
      /\ proc[p].pc = "mr_backoff" =>
           /\ proc[p].answer = RateLimitAnswer
           /\ proc[p].waitedMs = BackoffTime
      /\ (proc[p].pc = "done" /\ proc[p].answer = RateLimitAnswer) =>
           /\ proc[p].waitedMs = BackoffTime
           /\ proc[p].httpCalls = 1
           /\ proc[p].error =
                [PlainError("Rate limited - retry after backoff") EXCEPT
                   !.operation = proc[p].kind]
           /\ proc[p].result = NoData
           /\ proc[p].cacheWrites = 0
           /\ proc[p].usageWrites = 0
      /\ (proc[p].pc = "done" /\ proc[p].answer # RateLimitAnswer) =>
           proc[p].waitedMs = 0

\* A getChannelVideos call answered 429 waited the backoff once and ended
\* with the error after its one request.
C18_Witness ==
  \E p \in Procs :
    /\ Ended(p, "getChannelVideos")
    /\ proc[p].answer = RateLimitAnswer
    /\ proc[p].waitedMs = BackoffTime
    /\ proc[p].httpCalls = 1
    /\ proc[p].err = "rateLimited"
    /\ proc[p].ckey \notin DOMAIN cache

\* C19: for an upstream answer that is not a success, not the 403 with the
\* reason quotaExceeded and not a 429, the operation throws an error that
\* carries the answer's HTTP status and the provider's error code (undefined
\* when the body has none), with a message that names the operation and holds
\* 'YouTube API error'; it returns no data, caches nothing and records no
\* usage.
C19_UpstreamError ==
  \A p \in Procs :
    (/\ proc[p].pc = "done"
     /\ proc[p].answer # Null
     /\ proc[p].answer \notin {QuotaAnswer, RateLimitAnswer}) =>
      /\ proc[p].error =
           [operation |-> proc[p].kind, text |-> "YouTube API error",
            status |-> proc[p].answer.status, code |-> proc[p].answer.code,
            quotaExceeded |-> FALSE]
      /\ proc[p].result = NoData
      /\ proc[p].httpCalls = 1
      /\ proc[p].cacheWrites = 0
      /\ proc[p].usageWrites = 0

\* A getSubscriptions call answered 401, as a call with an invalid token is,
\* ended with the error that carries 401.
C19_Witness ==
  \E p \in Procs :
    /\ Ended(p, "getSubscriptions")
    /\ proc[p].answer # Null
    /\ proc[p].answer.status = 401
    /\ proc[p].error # Null
    /\ proc[p].error.status = 401
    /\ proc[p].error.operation = "getSubscriptions"
    /\ proc[p].error.text = "YouTube API error"
    /\ proc[p].ckey \notin DOMAIN cache

\* The number of chunks of n ids, and the k-th chunk of a list in its order.
ChunkCount(n) == (n + BatchSize - 1) \div BatchSize

Chunk(videoIds, k) ==
  SubSeq(videoIds, (k - 1) * BatchSize + 1, Min(k * BatchSize, Len(videoIds)))

\* The chunks of a list that differ from one another, ids sorted.
DistinctChunks(videoIds) ==
  {Sort(Chunk(videoIds, k)) : k \in 1..ChunkCount(Len(videoIds))}

\* C20 as stated: a getVideoDetails call with n ids on a cold cache that
\* returns has made ceil(n / 50) upstream requests, one for each consecutive
\* chunk of at most 50 ids in input order, and has written one cache entry
\* and recorded usage once for each chunk; with no ids it makes no request
\* and returns nothing.
C20_CeilRequests ==
  \A p \in Procs :
    (Ended(p, "getVideoDetails") /\ proc[p].err = "none") =>
      LET videoIds == proc[p].args.ids
          c == ChunkCount(Len(videoIds)) IN
      /\ proc[p].httpCalls = c
      /\ Len(proc[p].items) = c
      /\ proc[p].cacheWrites = c
      /\ Cardinality(DOMAIN cache) = c
      /\ \A k \in 1..c : VideoDetailsKey(Chunk(videoIds, k)) \in DOMAIN cache
      /\ proc[p].usageWrites = c
      /\ KvGet(usage, Today, NoUsage).requestCount = c

\* C20: a getVideoDetails call with n ids on a cold cache takes the
\* consecutive chunks of at most 50 ids in input order, one after another.
\* It returns one batch of items per chunk and leaves a cache entry under the
\* key of every chunk; it makes one upstream request, writes one cache entry
\* and records usage once for every chunk whose sorted ids differ from those
\* of the chunks before it, a chunk that repeats an earlier one being served
\* from that chunk's entry.  With all chunks different that is ceil(n / 50)
\* requests, entries and recordings; with no ids, none and an empty result.
C20_Amended ==
  \A p \in Procs :
    (Ended(p, "getVideoDetails") /\ proc[p].err = "none") =>
      LET videoIds == proc[p].args.ids
          c == ChunkCount(Len(videoIds))
          d == Cardinality(DistinctChunks(videoIds)) IN
      /\ proc[p].httpCalls = d
      /\ Len(proc[p].items) = c
      /\ proc[p].cacheWrites = d
      /\ Cardinality(DOMAIN cache) = d
      /\ \A k \in 1..c : VideoDetailsKey(Chunk(videoIds, k)) \in DOMAIN cache
      /\ proc[p].usageWrites = d
      /\ KvGet(usage, Today, NoUsage).requestCount = d
      /\ d <= c
      /\ (\A j, k \in 1..c :
            j # k => Sort(Chunk(videoIds, j)) # Sort(Chunk(videoIds, k))) =>
           d = c

\* The call with MaxIds ids in descending order returned after three
\* requests, with three entries in the cache and three recordings.
C20_Witness ==
  \E p \in Procs :
    /\ Ended(p, "getVideoDetails")
    /\ proc[p].err = "none"
    /\ proc[p].args.ids = Reverse(Range(1, MaxIds))
    /\ proc[p].httpCalls = 3
    /\ Len(proc[p].items) = 3
    /\ Cardinality(DOMAIN cache) = 3
    /\ usage[Today].requestCount = 3
    /\ usage[Today].quotaUsed = 3

\* C21: getVideoDetails absorbs no chunk failure.  When the request of a
\* chunk fails (the quota check, the fetch or the upstream's answer) the call
\* ends there: it throws that chunk's error, named getVideoDetails, and
\* returns no items, not even those of the chunks before.  The failure undoes
\* nothing: the cache entries written and the usage recorded for the chunks
\* completed before it stay as they were.
C21_ChunkFailureRaised ==
  [][\A p \in Procs :
       LET l == proc[p]
           m == proc'[p] IN
       (/\ l.kind = "getVideoDetails"
        /\ l.pc \in {"crl_get", "mr_fetch", "mr_backoff"}
        /\ m # l) =>
         /\ (l.answer = Null /\ m.answer # Null) => m.pc \in {"done", "mr_backoff"}
         /\ l.pc = "mr_backoff" => m.pc = "done" /\ m.error # Null
         /\ m.error # Null =>
              /\ m.pc = "done"
              /\ m.error.operation = "getVideoDetails"
              /\ (m.answer # Null /\ m.answer.status # 429) =>
                   m.error.status = m.answer.status
              /\ m.items = <<>>
              /\ m.result = NoData
              /\ cache' = cache
              /\ usage' = usage
              /\ m.cacheWrites = l.cacheWrites
              /\ m.usageWrites = l.usageWrites
              /\ Cardinality(DOMAIN cache') = m.cacheWrites
              /\ KvGet(usage', Today, NoUsage).requestCount = m.usageWrites]_vars

\* The request of the second chunk failed: the call threw with no items, the
\* first chunk's cache entry and usage record in place.
C21_Witness ==
  \E p \in Procs :
    /\ Ended(p, "getVideoDetails")
    /\ proc[p].answer # Null
    /\ proc[p].error # Null
    /\ proc[p].httpCalls = 2
    /\ proc[p].items = <<>>
    /\ proc[p].cacheWrites = 1
    /\ VideoDetailsKey(Chunk(proc[p].args.ids, 1)) \in DOMAIN cache
    /\ Today \in DOMAIN usage
    /\ usage[Today].requestCount = 1

\* The ids of a list, each once.
Ids(channelIds) == {channelIds[k] : k \in 1..Len(channelIds)}

\* C22: batchGetChannelVideos never raises, and its map has one entry for
\* each distinct channel id of the list.  A closure whose call threw (at the
\* quota check, at the request, or after the backoff) resolves to the empty
\* result; a closure whose call returned resolves to what the call returned,
\* the cached data or the data the upstream sent.  When the calls of a group
\* have ended, the map holds for every channel of the group what the
\* channel's closure resolved to (the later one for a channel that is in the
\* group twice) and the entries of the groups before are as they were.
C22_OneEntryPerChannel ==
  [][/\ \A q \in Workers :
          proc[q].kind = "getChannelVideos" /\ proc'[q].pc = "done" =>
            /\ proc[q].pc \in {"crl_get", "mr_fetch", "mr_backoff"} =>
                 proc'[q].result = EmptyVideos /\ proc'[q].err = "caught"
            /\ proc[q].pc = "gfc_get" =>
                 /\ proc[q].ckey \in DOMAIN cache
                 /\ proc'[q].result = cache[proc[q].ckey].data
                 /\ proc'[q].err = "none"
            /\ proc[q].pc \in {"tau_get", "tau_set"} =>
                 /\ proc'[q].result = proc[q].data
                 /\ proc[q].data \in Payloads
                 /\ proc'[q].err = "none"
            /\ proc'[q].args.channel = proc[q].args.channel
     /\ proc'[Caller].error = Null
     /\ proc[Caller].pc = "bgcv_all" /\ proc'[Caller].pc # "bgcv_all" =>
          LET batch == proc[Caller].batch
              results == proc[Caller].results IN
          /\ DOMAIN proc'[Caller].results = DOMAIN results \cup Ids(batch)
          /\ \A c \in DOMAIN results \ Ids(batch) :
               proc'[Caller].results[c] = results[c]
          /\ \A q \in 1..Len(batch) :
               /\ proc[q].args.channel = batch[q]
               /\ (\A r \in 1..Len(batch) : batch[r] = batch[q] => r <= q) =>
                    proc'[Caller].results[batch[q]] = proc[q].result
     /\ proc'[Caller].pc = "done" =>
          /\ proc'[Caller].kind = "batchGetChannelVideos"
          /\ DOMAIN proc'[Caller].results = Ids(proc'[Caller].args.ids)
          /\ \A c \in DOMAIN proc'[Caller].results :
               proc'[Caller].results[c] \in Payloads \cup {EmptyVideos}
    ]_vars

\* A batch for two channels has returned: the first channel's call failed and
\* its entry is the empty result, the second channel's entry holds the data
\* the upstream sent, which is also what the cache holds for the channel.
C22_Witness ==
  /\ proc[Caller].pc = "done"
  /\ proc[Caller].kind = "batchGetChannelVideos"
  /\ proc[Caller].args.ids = <<1, 2>>
  /\ proc[Caller].error = Null
  /\ proc[Caller].results[1] = EmptyVideos
  /\ proc[Caller].results[2] \in Payloads
  /\ <<"channel_videos", 1, "first", 10, "all">> \notin DOMAIN cache
  /\ cache[<<"channel_videos", 2, "first", 10, "all">>].data = proc[Caller].results[2]

\* C23: a refresh response without a refresh token leaves the session with the
\* refresh token it had, and a response with one replaces it.  This holds for
\* the session ensureValidToken builds from the answer of refreshAccessToken
\* and for the record it then writes to the store.
C23_RefreshTokenKept ==
  [][\A p \in Procs :
       /\ proc[p].pc = "evt_refresh" /\ proc'[p].pc = "evt_set" =>
            /\ proc'[p].updated.refreshToken =
                 IF proc'[p].evt.refresh = 0
                   THEN proc[p].session.refreshToken
                   ELSE proc'[p].evt.refresh
            /\ proc'[p].updated.refreshToken # 0
            /\ proc'[p].session = proc[p].session
       /\ proc[p].pc = "evt_set" /\ proc'[p].evt.outcome = "refreshed" =>
            /\ proc[p].session.id \in DOMAIN sessions'
            /\ sessions'[proc[p].session.id] = proc[p].updated
            /\ sessions'[proc[p].session.id].refreshToken =
                 IF proc[p].evt.refresh = 0
                   THEN proc[p].session.refreshToken
                   ELSE proc[p].evt.refresh
    ]_vars

\* A refresh whose response carried no refresh token was persisted: the
\* stored session has the second access token and still the first refresh
\* token.
C23_Witness ==
  \E p \in Procs, sid \in DOMAIN sessions :
    /\ proc[p].pc = "ra_userinfo"
    /\ proc[p].evt.outcome = "refreshed"
    /\ proc[p].evt.refresh = 0
    /\ proc[p].evt.id = sid
    /\ sessions[sid].accessToken = 2
    /\ sessions[sid].refreshToken = 1
    /\ proc[p].valid.refreshToken = 1

\* C24: a failure of the store in the cache layer or in the usage and quota
\* tracking never makes a gateway read fail.  The steps that access the store
\* for them (the cache read and its delete, the cache write, the read of the
\* quota check, the read and the write of the usage record) throw nothing but
\* the refusal of the quota check, and the call that got data from the
\* upstream returns that data whatever the store did afterwards.
C24_StoreFailuresSwallowed ==
  [][\A p \in Procs :
       (/\ proc[p].kind = "getSubscriptions"
        /\ proc[p].pc \in {"gfc_get", "gfc_del", "sc_set", "crl_get",
                           "tau_get", "tau_set"}
        /\ proc'[p] # proc[p]) =>
         /\ proc'[p].error # Null => proc'[p].err = "quotaLimit"
         /\ proc[p].pc \in {"sc_set", "tau_get", "tau_set"} /\ proc'[p].pc = "done" =>
              proc'[p].result = proc[p].data /\ proc[p].data \in Payloads
    ]_vars

\* The catch of the subscriptions, videos and video-details routes: the
\* response for the error the gateway call threw.  code "" stands for a body
\* without a code, retryAfter "" for a response without the Retry-After
\* header.
RouteCatch(apiError) ==
  IF apiError.quotaExceeded
    THEN [status |-> 429, code |-> "quota_exceeded", retryAfter |-> "86400"]
    ELSE IF apiError.status = 403
      THEN [status |-> 403, code |-> "access_forbidden", retryAfter |-> ""]
      ELSE [status |-> 500, code |-> "", retryAfter |-> ""]

\* C25: a gateway call that failed on quota (refused by the quota check, or
\* answered 403 quotaExceeded by the provider) or on an upstream 429 gets a
\* response from its route that carries a code and a Retry-After header and
\* is not the generic 500.
C25_QuotaAndRateLimitResponses ==
  \A p \in Procs :
    (/\ Ended(p, "getSubscriptions")
     /\ proc[p].err \in {"quotaLimit", "quotaExceeded", "rateLimited"}) =>
      LET response == RouteCatch(proc[p].error) IN
      /\ response.status # 500
      /\ response.code # ""
      /\ response.retryAfter # ""

\* C26: ten minutes after its issue a state record is gone from the store,
\* redeemed or not.  The store removes a record when its expiry has come, so
\* every record that is stored, redeemed or not, has an expiry, and that is
\* ten minutes after the write that issued it (which login made after it
\* stamped createdAt and before now).
C26_StateGoneAfterTTL ==
  \A s \in DOMAIN oauthStates :
    /\ oauthStates[s].expireAt # NoExpiry
    /\ oauthStates[s].expireAt >= oauthStates[s].createdAt + StateTTL
    /\ oauthStates[s].expireAt <= now + StateTTL

\* C27: a request to requireAuth whose handler was called and threw is
\* answered with a 500-class status; 401 answers only the requests that
\* failed authentication, whose handler was never called.
C27_HandlerFailureIs500 ==
  \A p \in Procs :
    Ended(p, "requireAuth") =>
      /\ proc[p].err = "handler" =>
           proc[p].resp.status >= 500 /\ proc[p].resp.status <= 599
      /\ proc[p].resp.status = 401 => proc[p].handlerCalls = 0

\* C28: storeTokens writes the new session under an id no record has and
\* leaves every record that is stored as it is; it then points the user's
\* pointer at the new id and leaves all records as they are: the session the
\* pointer named before is still stored under its own id, unchanged, and is
\* no longer what getUserSession finds for the user.
C28_OldSessionUntouched ==
  [][\A p \in Procs :
       /\ proc[p].pc = "st_set1" /\ proc'[p].pc = "st_set2" =>
            /\ proc[p].sess.id \notin DOMAIN sessions
            /\ DOMAIN sessions' = DOMAIN sessions \cup {proc[p].sess.id}
            /\ sessions'[proc[p].sess.id] = proc[p].sess
            /\ \A i \in DOMAIN sessions : sessions'[i] = sessions[i]
            /\ userSessions' = userSessions
       /\ proc[p].pc = "st_set2" /\ userSessions' # userSessions =>
            LET userId == proc[p].sess.userId IN
            /\ sessions' = sessions
            /\ userSessions'[userId] = proc[p].sess.id
            /\ \A u \in DOMAIN userSessions \ {userId} :
                 userSessions'[u] = userSessions[u]
            /\ userId \in DOMAIN userSessions =>
                 /\ userSessions[userId] # proc[p].sess.id
                 /\ userSessions[userId] \in DOMAIN sessions =>
                      sessions'[userSessions[userId]] # sessions'[userSessions'[userId]]
    ]_vars

\* The user who had session 1 logged in again: the callback ended with the
\* cookie of session 2, the pointer names session 2, and session 1 is stored
\* as the earlier login left it.
C28_Witness ==
  \E p \in Procs :
    /\ Ended(p, "callback")
    /\ proc[p].resp.cookie = 2
    /\ userSessions[1] = 2
    /\ 2 \in DOMAIN sessions
    /\ 1 \in DOMAIN sessions
    /\ sessions[1].id = 1
    /\ sessions[1].createdAt = 0
    /\ sessions[1].lastAccessed = 0

\* The number of UTF-8 bytes of a token.
ByteLength(token) ==
  Len(token) + Cardinality({k \in 1..Len(token) : token[k] >= 128})

\* C29 as stated: hashing a token again gives the same hash, and the hash of
\* every token has exactly 16 characters.
C29_SixteenCharacters ==
  \A p \in Procs :
    Ended(p, "hashTest") =>
      /\ Len(proc[p].ckey) = HashLength
      /\ proc[p].prev # Null => proc[p].prev.hash = proc[p].ckey

\* C29: hashing a token again gives the same hash.  The hash has two
\* characters, both hex digits, for each byte of the token up to 16
\* characters: exactly 16 for a token of eight bytes or more, and twice the
\* number of bytes for a shorter one.
C29_Amended ==
  \A p \in Procs :
    Ended(p, "hashTest") =>
      LET token == proc[p].args.token
          hash == proc[p].ckey IN
      /\ proc[p].prev # Null => proc[p].prev.hash = hash
      /\ Len(hash) = Min(HashLength, 2 * ByteLength(token))
      /\ ByteLength(token) >= 8 <=> Len(hash) = HashLength
      /\ \A k \in 1..Len(hash) : \E d \in 1..16 : hash[k] = HexDigits[d]
      /\ token = <<9, 97>> => hash = <<"0", "9", "6", "1">>

\* A token of eight bytes in five characters was hashed twice, to the same
\* 16 characters both times.
C29_Witness ==
  \E p \in Procs :
    /\ Ended(p, "hashTest")
    /\ proc[p].prev # Null
    /\ proc[p].args.token = <<233, 233, 233, 9, 97>>
    /\ proc[p].prev.hash = proc[p].ckey
    /\ proc[p].ckey = <<"c", "3", "a", "9", "c", "3", "a", "9",
                        "c", "3", "a", "9", "0", "9", "6", "1">>

\* C30: no recording is lost when the calls that record usage run side by
\* side.  Once the calls in flight have ended, the current day's record counts
\* every recording the store performed that day and adds up their costs: N
\* recordings of one kind leave requestCount N and quotaUsed N times the cost
\* of the kind.
C30_NoLostUpdates ==
  ((\A p \in Procs : proc[p].pc \in {"idle", "done"}) /\ Today \in DOMAIN usage) =>
    /\ usage[Today].requestCount = TrackedOn(Today)
    /\ usage[Today].quotaUsed = CostOf(Today, Endpoints)
    /\ \A e \in Endpoints :
         KvGet(tracked, <<Today, e>>, 0) = TrackedOn(Today) =>
           usage[Today].quotaUsed = TrackedOn(Today) * QuotaCost(e)

\* C31: tokens a refresh has stored are never reverted.  Every refresh gives a
\* session the next access token and an expiry computed at the refresh, so no
\* write to a stored session, by whatever request in flight, puts back an
\* earlier access token.
C31_RefreshNeverReverted ==
  [][\A sid \in DOMAIN sessions \cap DOMAIN sessions' :
       sessions'[sid].accessToken >= sessions[sid].accessToken]_vars

\* The call ended with data it did not fetch: it was served from the cache.
ServedFromCache(p) ==
  /\ Ended(p, "getSubscriptions")
  /\ proc[p].httpCalls = 0
  /\ proc[p].result # NoData

\* C32: subscription data cached for one access token is never returned to a
\* caller that presents another one.  Of two callers that make one call each,
\* one is served from the cache only when the other, which then wrote the
\* entry, presented the same token.
C32_NoHitAcrossTokens ==
  \A p \in Procs :
    ServedFromCache(p) =>
      \A q \in Procs \ {p} :
        proc[q].cacheWrites > 0 => proc[q].args.token = proc[p].args.token

\* C33: optionalAuth calls the downstream handler exactly once for every
\* request it answers, also when the handler itself raises.
C33_HandlerCalledOnce ==
  \A p \in Procs :
    Ended(p, "optionalAuth") => proc[p].handlerCalls = 1

AuthSuccess(sessionId) == SetSessionCookie(Response(302, "/?auth=success"), sessionId)

AuthFailed == Response(302, "/?error=auth_failed")

\* The step from l to m of a callback keeps the order of the handler: the
\* state is looked up and found unused, then marked used, then the code is
\* exchanged, then the profile is fetched, and only then storeTokens writes
\* the session record, then the user's pointer, and the cookie is set.
CreatesSessionLast(l, m) ==
  LET q == l.qstate IN
  /\ m.pc = "cb_set" =>
       /\ l.pc = "cb_get"
       /\ q \in DOMAIN oauthStates
       /\ ~oauthStates[q].used
  /\ m.pc = "cb_exchange" =>
       /\ l.pc = "cb_set"
       /\ oauthStates'[q].used
       /\ redemptions'[q] = KvGet(redemptions, q, 0) + 1
  /\ m.pc = "cb_userinfo" =>
       /\ l.pc = "cb_exchange"
       /\ \E life \in Lifetimes : m.tokens = ExchangeCodeForTokens(life)
  /\ m.pc = "st_set1" =>
       /\ l.pc = "cb_userinfo"
       /\ m.sess.userId \in Users
       /\ m.sess.accessToken = l.tokens.access_token
  /\ sessions' # sessions =>
       /\ l.pc = "st_set1"
       /\ m.pc = "st_set2"
       /\ Redeemed(q)
       /\ sessions' = KvSet(sessions, l.sess.id, l.sess)
  /\ userSessions' # userSessions =>
       /\ l.pc = "st_set2"
       /\ KvGet(sessions, l.sess.id, Null) = l.sess
       /\ userSessions' = KvSet(userSessions, l.sess.userId, l.sess.id)
       /\ m.resp = AuthSuccess(l.sess.id)
  /\ m.resp.cookie # 0 => userSessions' # userSessions

\* The callback ended in this step without a session cookie.
EndsWithoutSession(l, m) ==
  l.pc # "done" /\ m.pc = "done" /\ m.resp.cookie = 0

\* C34 as stated: the callback creates a session only after the state was
\* found unused and marked used, the exchange succeeded and the profile was
\* fetched; every other outcome has written no session record and no user
\* pointer and is answered 400 or by a redirect with an error code.
C34_OnlyAfterAllChecks ==
  [][\A p \in One :
       (proc'[p] # proc[p] /\ proc'[p].kind = "callback") =>
         LET l == IF proc[p].pc = "done" THEN IdleProc ELSE proc[p]
             m == proc'[p] IN
         /\ CreatesSessionLast(l, m)
         /\ EndsWithoutSession(l, m) =>
              /\ l.pc # "st_set2"
              /\ m.resp \in {Response(400, "Missing authorization code or state"),
                             Response(400, "Invalid or expired state"),
                             Response(302, "/?error=oauth_error"),
                             AuthFailed}]_vars

\* C34: the callback creates a session only after the state was found unused
\* and marked used, the exchange succeeded and the profile was fetched.  A
\* callback that ends otherwise is answered 405 (method), by the redirect
\* oauth_error, 400 (code or state missing, state unknown or used), 500 (no
\* client configuration, the state already marked used) or by the redirect
\* auth_failed (failed exchange, failed profile fetch, failed store
\* operation); it has written no user pointer, and no session record unless
\* it is the pointer's write that failed.
C34_Amended ==
  [][\A p \in One :
       (proc'[p] # proc[p] /\ proc'[p].kind = "callback") =>
         LET l == IF proc[p].pc = "done" THEN IdleProc ELSE proc[p]
             m == proc'[p] IN
         /\ CreatesSessionLast(l, m)
         /\ EndsWithoutSession(l, m) =>
              /\ UNCHANGED <<sessions, userSessions>>
              /\ l.pc = "idle" =>
                   \/ m.resp \in {Response(405, "Method not allowed"),
                                  Response(302, "/?error=oauth_error"),
                                  Response(400, "Missing authorization code or state")}
                   \/ m.resp = AuthFailed /\ m.err = "store"
              /\ l.pc = "cb_get" =>
                   \/ /\ m.resp = Response(400, "Invalid or expired state")
                      /\ l.qstate \in DOMAIN oauthStates => oauthStates[l.qstate].used
                   \/ m.resp = AuthFailed /\ m.err = "store"
              /\ l.pc = "cb_set" =>
                   \/ /\ m.resp = Response(500, "OAuth configuration missing")
                      /\ oauthStates'[l.qstate].used
                   \/ m.resp = AuthFailed /\ m.err = "store" /\ UNCHANGED oauthStates
              /\ l.pc = "cb_exchange" => m.resp = AuthFailed /\ m.err = "exchange"
              /\ l.pc = "cb_userinfo" => m.resp = AuthFailed /\ m.err = "userinfo"
              /\ l.pc = "st_set1" =>
                   /\ m.resp = AuthFailed /\ m.err = "store"
                   /\ l.sess.id \notin DOMAIN sessions
              /\ l.pc = "st_set2" =>
                   /\ m.resp = AuthFailed /\ m.err = "store"
                   /\ KvGet(sessions, l.sess.id, Null) = l.sess]_vars

\* A callback created a session: the record and the user's pointer are
\* stored, the cookie names the session, and the state it carried is used.
C34_Witness ==
  \E p \in One :
    /\ Ended(p, "callback")
    /\ proc[p].resp.cookie \in DOMAIN sessions
    /\ proc[p].resp = AuthSuccess(proc[p].resp.cookie)
    /\ \E u \in DOMAIN userSessions : userSessions[u] = proc[p].resp.cookie
    /\ Redeemed(proc[p].qstate)
    /\ oauthStates[proc[p].qstate].used

\* C35: the callback marks the state used before it attempts the code
\* exchange: the exchange is reached only with the state stored as used, a
\* callback whose exchange or profile fetch fails leaves it so, and a repeat
\* of the callback that looks up a state marked used is answered 400 as an
\* invalid state and attempts no exchange.
C35_ConsumedBeforeExchange ==
  [][\A p \in One :
       LET l == proc[p]
           m == proc'[p]
           q == l.qstate IN
       /\ (m.pc = "cb_exchange" /\ l.pc # "cb_exchange") =>
            /\ l.pc = "cb_set"
            /\ oauthStates'[q].used
       /\ (l.pc \in {"cb_exchange", "cb_userinfo"}
             /\ m.pc = "done" /\ m.err \in {"exchange", "userinfo"}) =>
            /\ m.resp = AuthFailed
            /\ q \in DOMAIN oauthStates'
            /\ oauthStates'[q].used
       /\ (l.pc = "cb_get" /\ StoreAnswers(p)
             /\ q \in DOMAIN oauthStates /\ oauthStates[q].used) =>
            /\ m.pc = "done"
            /\ m.resp = Response(400, "Invalid or expired state")
            /\ UNCHANGED <<oauthStates, redemptions>>
       /\ (q \in DOMAIN oauthStates /\ oauthStates[q].used) =>
            (q \in DOMAIN oauthStates' /\ oauthStates'[q].used)]_vars

\* The repeat of a callback was answered 400: its state was marked used by a
\* callback that created no session, the exchange or the profile fetch (or
\* the configuration) having failed after the mark.
C35_Witness ==
  \E p \in One :
    /\ Ended(p, "callback")
    /\ proc[p].resp = Response(400, "Invalid or expired state")
    /\ KvGet(redemptions, proc[p].qstate, 0) = 1
    /\ oauthStates[proc[p].qstate].used
    /\ nextSid = 1
    /\ sessions = <<>>

\* The calls of getChannelVideos that have started and not settled.
InFlight == {q \in Workers : proc[q].pc \notin {"idle", "done"}}

\* C36: batchGetChannelVideos has at most five single-channel calls in
\* flight, those of the current group, a slice of at most five consecutive
\* ids; it leaves a group only when every call of the group has settled;
\* the next group starts after a delay of 100 ms, and after the last group
\* the map is returned with no delay.
C36_GroupsOfFive ==
  [][LET l == proc[Caller]
         m == proc'[Caller]
         batches == ChannelBatches(m.args.ids) IN
     /\ Cardinality(InFlight') <= ChannelBatchSize
     /\ InFlight' # {} =>
          /\ m.pc = "bgcv_all"
          /\ m.batch = Slice(m.args.ids, (m.i - 1) * ChannelBatchSize,
                             m.i * ChannelBatchSize)
          /\ \A q \in InFlight' :
               q <= Len(m.batch) /\ proc'[q].args.channel = m.batch[q]
     /\ (l.pc = "bgcv_all" /\ m.pc # "bgcv_all") =>
          /\ \A q \in 1..Len(l.batch) : proc[q].pc = "done"
          /\ InFlight' = {}
     /\ (m.pc = "bgcv_all" /\ m.i # l.i) =>
          /\ m.i = l.i + 1
          /\ InFlight = {}
          /\ l.i > 0 => (l.pc = "bgcv_delay"
                           /\ l.waitedMs = l.i * ChannelDelayMs)
     /\ (m.pc = "done" /\ l.pc # "done" /\ Len(m.args.ids) > 0) =>
          /\ l.pc = "bgcv_all"
          /\ l.i = Len(batches)
          /\ m.waitedMs = (Len(batches) - 1) * ChannelDelayMs]_vars

\* A batch over more ids than a group holds has returned: two groups, one
\* delay of 100 ms between them and none after the second.
C36_Witness ==
  /\ proc[Caller].pc = "done"
  /\ Len(proc[Caller].args.ids) > ChannelBatchSize
  /\ DOMAIN proc[Caller].results = Ids(proc[Caller].args.ids)
  /\ proc[Caller].waitedMs = ChannelDelayMs

\* C37: batchGetChannelVideos terminates.  Whatever list it is given, and
\* whatever the store and the upstream answer to each call, the batch returns
\* its map; so it does from every point where a call of it was answered 429
\* and waits out the backoff delay.
C37_BatchReturns ==
  /\ <>(proc[Caller].pc = "done")
  /\ \A q \in Workers :
       (proc[q].pc = "mr_backoff") ~> (proc[Caller].pc = "done")

\* The call for the last channel of the second group was answered 429 and is
\* in its backoff delay; the first group had a call that failed too.
C37_Witness ==
  /\ proc[Caller].pc = "bgcv_all"
  /\ proc[Caller].i = 2
  /\ \E c \in DOMAIN proc[Caller].results : proc[Caller].results[c] = EmptyVideos
  /\ \E q \in Workers :
       /\ proc[q].pc = "mr_backoff"
       /\ q = Len(proc[Caller].batch)
       /\ proc[q].waitedMs = BackoffTime

\* C38: refresh is lazy and only on need.  A refresh request is issued only
\* by ensureValidToken, called with the session getStoredTokens returned, and
\* only when the session is within five minutes of its expiry or past it.  On
\* a session that is not, ensureValidToken issues no request, writes nothing
\* (the store holds the record as getStoredTokens wrote it) and returns the
\* session it was given.  A refresh that succeeds stores and returns the
\* session with a new accessToken, refreshToken, tokenExpiresAt and
\* lastAccessed, its id, userId and createdAt unchanged.
C38_LazyRefresh ==
  [][\A p \in One :
       LET l == proc[p]
           m == proc'[p] IN
       /\ m.refreshCalls > l.refreshCalls =>
            /\ l.pc = "gst_set"
            /\ m.pc = "evt_refresh"
            /\ m.refreshCalls = 1
            /\ m.session = l.sess
            /\ now > m.session.tokenExpiresAt - BufferTime
       /\ (l.pc = "gst_set" /\ m.evt.outcome = "kept") =>
            /\ now <= l.sess.tokenExpiresAt - BufferTime
            /\ m.refreshCalls = 0
            /\ m.pc \in {"ra_userinfo", "oa_userinfo"}
            /\ m.valid = l.sess
            /\ sessions' = KvSet(sessions, l.sid, l.sess)
            /\ UNCHANGED userSessions
       /\ (l.pc = "evt_refresh" /\ m.pc = "evt_set") =>
            /\ m.updated.accessToken # l.session.accessToken
            /\ m.updated.tokenExpiresAt = now + m.evt.life
            /\ m.updated.lastAccessed = now
            /\ [m.updated EXCEPT !.accessToken = l.session.accessToken,
                                 !.refreshToken = l.session.refreshToken,
                                 !.tokenExpiresAt = l.session.tokenExpiresAt,
                                 !.lastAccessed = l.session.lastAccessed]
                 = l.session
            /\ UNCHANGED <<sessions, userSessions>>
       /\ (l.pc = "evt_set" /\ m.evt.outcome = "refreshed") =>
            /\ m.valid = l.updated
            /\ sessions' = KvSet(sessions, l.session.id, l.updated)
            /\ UNCHANGED userSessions]_vars

\* Both cases have happened to one session: a request refreshed it, and a
\* later request found it fresh and got it back from ensureValidToken as
\* given; the store holds that record, created when the session was.
C38_Witness ==
  \E p \in One :
    /\ proc[p].pc \in {"ra_userinfo", "oa_userinfo"}
    /\ proc[p].evt.outcome = "kept"
    /\ proc[p].refreshCalls = 0
    /\ proc[p].valid.accessToken > 1
    /\ proc[p].valid.createdAt = 0
    /\ sessions[proc[p].valid.id] = proc[p].valid

\* C39: usage is recorded only for upstream requests that succeeded.  The
\* day's record changes only in the recording of a call whose one request
\* returned data, and by one request; a read served from the cache, a call
\* refused at the quota check and a call whose request failed (403, 429 or
\* another status) end without having recorded anything, and a call that
\* fetched its data has recorded it once when the usage store answered.  So
\* requestCount is the number of requests recorded that day.
C39_OnlySuccessesCounted ==
  [][\A p \in One :
       LET l == proc[p]
           m == proc'[p]
           before == IF l.today \in DOMAIN usage
                       THEN usage[l.today].requestCount ELSE 0 IN
       /\ (usage' # usage \/ tracked' # tracked) =>
            /\ l.pc = "tau_set"
            /\ l.httpCalls = 1
            /\ l.data \in Payloads
            /\ l.answer = Null
            /\ usage'[l.today].requestCount = before + 1
            /\ TrackedOn(l.today)' = TrackedOn(l.today) + 1
       /\ (l.pc # "done" /\ m.pc = "done") =>
            /\ m.usageWrites <= 1
            /\ (m.httpCalls = 0 \/ m.result = NoData) => m.usageWrites = 0
            /\ m.answer # Null => m.usageWrites = 0
            /\ (m.httpCalls = 1 /\ m.result # NoData /\ m.err = "none") =>
                 m.usageWrites = 1
       /\ Today \in DOMAIN usage =>
            usage[Today].requestCount = TrackedOn(Today)]_vars

\* An earlier call fetched its data and was recorded; the call that has just
\* ended was answered 429 and recorded nothing: the day's record counts one
\* request.
C39_Witness ==
  \E p \in One :
    /\ Ended(p, "getSubscriptions")
    /\ proc[p].answer # Null
    /\ proc[p].answer.status = 429
    /\ proc[p].usageWrites = 0
    /\ Today \in DOMAIN usage
    /\ usage[Today].requestCount = 1
    /\ TrackedOn(Today) = 1

\* C40: the cache key of a chunk does not depend on the order of its ids.  A
\* getVideoDetails call with the ids of an earlier call in another order, at
\* most 50 of them, that reads the cache before the ten minutes of the
\* earlier call's entry are over ends at that read: it makes no upstream
\* request, the earlier call's request being the only one of the two calls,
\* and returns the items the earlier call cached.
C40_OrderDoesNotMatter ==
  [][\A p \in One :
       (/\ proc[p].kind = "getVideoDetails"
        /\ proc[p].prev # Null
        /\ proc[p].pc = "gfc_get"
        /\ proc'[p] # proc[p]
        /\ proc'[p].err = "none"
        /\ proc[p].prev.cachedUntil # Never
        /\ now < proc[p].prev.cachedUntil) =>
         /\ proc'[p].pc = "done"
         /\ proc[p].ckey \in DOMAIN cache
         /\ proc'[p].items = <<cache[proc[p].ckey].data>>
         /\ proc[p].prev.httpCalls + proc'[p].httpCalls = 1]_vars

\* The call with the 50 ids in descending order, made some time after the
\* call with the ids in ascending order and inside the ten minutes, returned
\* that call's items without an upstream request.
C40_Witness ==
  \E p \in One :
    /\ Ended(p, "getVideoDetails")
    /\ proc[p].prev # Null
    /\ proc[p].prev.httpCalls = 1
    /\ proc[p].httpCalls = 0
    /\ proc[p].args.ids = Reverse(Range(1, BatchSize))
    /\ Len(proc[p].items) = 1
    /\ proc[p].items[1] \in Payloads
    /\ proc[p].ckey \in DOMAIN cache
    /\ cache[VideoDetailsKey(Range(1, BatchSize))].cachedAt < now
    /\ now < cache[VideoDetailsKey(Range(1, BatchSize))].expiresAt
====
